---- MODULE Spec2Model ----
(***************************************************************************)
(* Ollama provider layer of the CLI: the backend client's decoder of a     *)
(* streamed newline-delimited JSON body (OllamaClient.generate) and the    *)
(* translator that holds the conversation context                          *)
(* (OllamaContentGenerator).                                               *)
(*                                                                         *)
(* Spec        the translator, one instance, serialized calls; the client  *)
(*             is the collaborator it awaits: it answers with one response *)
(*             object, with a chunk sequence, or with a rejection.         *)
(* SpecReason  the same translator, the chunks drawn from ReasonChunks.    *)
(* SpecClient  the client's streamGenerator over the bytes of one body.    *)
(* SpecTools   the same translator, the chunks drawn from ToolChunks.      *)
(* SpecUtil    countTokens and embedContent over one request.              *)
(* SpecErrors  the translator with all its methods, the client failing.    *)
(* SpecHttp    fetchWithRetry and the client operations that await it.     *)
(* SpecFactory validateAuthMethod, createContentGeneratorConfig and        *)
(*             createContentGenerator.                                     *)
(* SpecPair    two translator instances, their calls interleaved.          *)
(* SpecRequest paramsFromGeminiRequest over one generate request.          *)
(* SpecFrame   the translator with all its methods, the client answering   *)
(*             with and without a context and failing.                     *)
(* SpecOverlap one translator instance, two calls overlapping.             *)
(* SpecGenerate the client operations and the consumer of the sequence     *)
(*             generate returns.                                           *)
(***************************************************************************)
EXTENDS Integers, Sequences, FiniteSets, TLC

VARIABLES
    currentContext,      \* OllamaContentGenerator.currentContext
    pc,                  \* where the translator's current call stands
    ollamaParams,        \* the params handed to ollamaClient.generate
    chunks,              \* the chunks the client sequence produced in this call
    yielded,             \* the responses geminiStream yielded in this call
    finalOllamaResponse, \* geminiStream's local of that name
    lastResponse,        \* what generateContent returned
    reader,              \* response.body.getReader(): "none", "open", "closed"
    calls,               \* calls started on the instance
    heldBefore,          \* currentContext when the current call started
    heldAfterPrev,       \* currentContext when the previous call ended
    callError,           \* what the current call threw: "none" if nothing
    body,                \* bytes of the HTTP body not yet read
    bodyNull,            \* response.body is null
    decoder,             \* bytes the TextDecoder holds back (stream: true)
    buffer,              \* streamGenerator's buffer
    received,            \* chunks streamGenerator yielded to its consumer
    cpc,                 \* where streamGenerator stands
    clientError,         \* what streamGenerator threw
    source,              \* the lines the backend wrote into the body
    partial,             \* a read has ended inside a line
    request,             \* the contents given to countTokens or embedContent
    upc,                 \* where that call stands
    totalTokens,         \* what countTokens returned
    promptText,          \* embedContent's local of that name
    embeddingsCalls,     \* calls of ollamaClient.embeddings
    embedded,            \* what embedContent returned
    utilError,           \* what the call threw
    embeddingsThrew,     \* the error ollamaClient.embeddings failed with
    clientThrew,         \* the error ollamaClient.generate or its sequence failed with
    op,                  \* the client operation, or "fetchWithRetry" called directly
    streamFlag,          \* params.stream of a generate call: undefined if omitted
    fpc,                 \* where fetchWithRetry stands
    signalGiven,         \* options.signal is set
    timer,               \* timeoutId: "none", "pending", "fired", "cleared"
    aborted,             \* controller.signal.aborted
    callerAborted,       \* options.signal.aborted
    attempts,            \* calls of fetch
    response,            \* what fetchWithRetry returned
    fetchError,          \* what fetchWithRetry threw
    requests,            \* calls of fetchWithRetry by the client operation
    hpc,                 \* where the client operation stands
    outcome,             \* what the client operation returned or threw
    model,               \* createContentGeneratorConfig's argument of that name
    authType,            \* its authType argument
    config,              \* what config.getOllamaModel() and config.getModel() give
    env,                 \* process.env, the values the factory reads
    envRead,             \* process.env as createContentGeneratorConfig read it
    contentGeneratorConfig, \* what createContentGeneratorConfig returned
    generator,           \* what createContentGenerator returned
    constructed,         \* the objects createContentGenerator constructed, in order
    factoryError,        \* what createContentGenerator threw
    factoryPc,           \* where the factory stands
    validation,          \* what validateAuthMethod returned, once it was called
    peer,                \* a second OllamaContentGenerator: its field and its call
    active,              \* the instance the translator's variables stand for
    geminiRequest,       \* a GenerateContentParameters: contents, config, tools
    mappedParams         \* the OllamaGenerateParams made of it

genVars == <<currentContext, pc, ollamaParams, chunks, yielded,
             finalOllamaResponse, lastResponse, calls, heldBefore, heldAfterPrev,
             callError>>
clientVars == <<body, bodyNull, decoder, buffer, received, cpc, clientError, source,
                partial>>
utilVars == <<request, upc, totalTokens, promptText, embeddingsCalls, embedded, utilError,
              embeddingsThrew>>
httpVars == <<op, streamFlag, fpc, signalGiven, timer, aborted, callerAborted, attempts, response,
              fetchError, requests, hpc, outcome>>
factoryVars == <<model, authType, config, env, envRead, contentGeneratorConfig, generator,
                 constructed, factoryError, factoryPc, validation>>
pairVars == <<peer, active>>
requestVars == <<geminiRequest, mappedParams>>
otherVars == <<factoryVars, pairVars, requestVars>>
restVars == <<utilVars, clientThrew, httpVars, otherVars>>
vars == <<genVars, reader, clientVars, restVars>>

(***************************************************************************)
(* Bounds of the model.                                                    *)
(***************************************************************************)
MaxCalls == 2
MaxChunks == 2
MaxLines == 3
MaxTurns == 2
MaxParts == 2

(***************************************************************************)
(* Optional fields: an absent field is <<>>, a present one <<value>>.      *)
(***************************************************************************)
undefined == <<>>
Some(v) == <<v>>
IsDefined(o) == o # <<>>
ValueOf(o) == o[1]

(***************************************************************************)
(* OllamaGenerateResponse, the fields the translator reads.                *)
(***************************************************************************)
Responses == {"", "a"}
Contexts == {<<1, 2, 3>>, <<4, 5, 6>>}
OptContexts == {undefined} \cup {Some(c) : c \in Contexts}
DoneReasons == {"", "stop", "length", "load"}
OptDoneReasons == {undefined} \cup {Some(r) : r \in DoneReasons}

\* tool_calls?: Array<{ function: { name, parameters } }>
ToolCall == {[name |-> "f", parameters |-> "p"], [name |-> "g", parameters |-> "q"]}
ToolCallLists ==
    {<<>>} \cup {<<t>> : t \in ToolCall}
        \cup {l \in [1..2 -> ToolCall] : l[1] # l[2]}
OptToolCalls == {undefined} \cup {Some(l) : l \in ToolCallLists}

OllamaGenerateResponse ==
    [response : Responses, done : BOOLEAN,
     done_reason : OptDoneReasons, context : OptContexts, tool_calls : OptToolCalls]

\* The chunks Spec draws from: every context and done flag, one reason.
ContextChunks ==
    {c \in OllamaGenerateResponse :
        /\ c.done_reason \in {undefined, Some("stop")}
        /\ c.done_reason = Some("stop") => c.done
        /\ c.tool_calls = undefined}

\* The chunks SpecReason draws from: every done flag and reason.
ReasonChunks ==
    {c \in OllamaGenerateResponse :
        c.response = "a" /\ c.context # Some(<<4, 5, 6>>) /\ c.tool_calls = undefined}

\* The chunks SpecTools draws from: every list of tool calls, with and without
\* text beside it.
ToolChunks ==
    {c \in OllamaGenerateResponse :
        /\ c.context = undefined
        /\ c.done_reason = (IF c.done THEN Some("stop") ELSE undefined)}

(***************************************************************************)
(* JavaScript truthiness of the two optional fields the code tests.        *)
(***************************************************************************)
\* if (x.context): an array is truthy even when empty, undefined is not
TruthyContext(o) == IsDefined(o)
\* !doneReason: undefined and the empty string are falsy
FalsyString(o) == ~IsDefined(o) \/ ValueOf(o) = ""

(***************************************************************************)
(* OllamaContentGenerator                                                  *)
(***************************************************************************)
paramsFromGeminiRequestNoContext(ctx) ==
    [context |-> undefined, stream |-> FALSE]

paramsFromGeminiRequest(ctx) ==
    [context |-> ctx, stream |-> FALSE]

mapDoneReason(doneReason) ==
    IF FalsyString(doneReason) THEN "FINISH_REASON_UNSPECIFIED"
    ELSE IF ValueOf(doneReason) = "stop" THEN "STOP"
    ELSE IF ValueOf(doneReason) = "length" THEN "MAX_TOKENS"
    ELSE "OTHER"

finishReasonOfMapped(ollamaResponse) ==
    IF ollamaResponse.done THEN mapDoneReason(ollamaResponse.done_reason)
    ELSE "FINISH_REASON_UNSPECIFIED"

\* the switch of responseToGeminiResponse
finishReasonOf(ollamaResponse) ==
    IF ollamaResponse.done
    THEN IF ollamaResponse.done_reason = Some("stop") THEN "STOP"
         ELSE IF ollamaResponse.done_reason = Some("length") THEN "MAX_TOKENS"
         ELSE "OTHER"
    ELSE "FINISH_REASON_UNSPECIFIED"

textPartsAlways(text) == <<[text |-> text]>>

\* currentText ? [{ text: currentText }] : []
textParts(text) == IF text # "" THEN <<[text |-> text]>> ELSE <<>>

\* ollamaResponse.tool_calls && ollamaResponse.tool_calls.length > 0
HasToolCalls(ollamaResponse) ==
    IsDefined(ollamaResponse.tool_calls) /\ Len(ValueOf(ollamaResponse.tool_calls)) > 0

\* tool_calls.map(toolCall => ({ name: toolCall.function.name,
\*                               args: toolCall.function.parameters }))
mappedFunctionCalls(toolCalls) ==
    [i \in 1..Len(toolCalls) |->
        [name |-> toolCalls[i].name, args |-> toolCalls[i].parameters]]

\* the context responseToGeminiResponse leaves in this.currentContext
contextAfterResponseMerged(held, ollamaResponse) ==
    IF TruthyContext(ollamaResponse.context)
    THEN IF IsDefined(held)
         THEN Some(ValueOf(held) \o ValueOf(ollamaResponse.context))
         ELSE ollamaResponse.context
    ELSE held

contextAfterResponse(held, ollamaResponse) ==
    IF TruthyContext(ollamaResponse.context) THEN ollamaResponse.context ELSE held

responseToGeminiResponseTextBeside(ollamaResponse) ==
    LET calls_ == IF HasToolCalls(ollamaResponse)
                  THEN mappedFunctionCalls(ValueOf(ollamaResponse.tool_calls))
                  ELSE <<>>
    IN  [parts |-> textParts(ollamaResponse.response)
                       \o [i \in 1..Len(calls_) |-> [functionCall |-> calls_[i]]],
         finishReason |-> finishReasonOf(ollamaResponse),
         text |-> Some(ollamaResponse.response),
         functionCalls |-> IF HasToolCalls(ollamaResponse) THEN Some(calls_) ELSE undefined]

\* the GenerateContentResponse responseToGeminiResponse builds
responseToGeminiResponse(ollamaResponse) ==
    IF HasToolCalls(ollamaResponse)
    THEN LET calls_ == mappedFunctionCalls(ValueOf(ollamaResponse.tool_calls))
         IN  [parts |-> [i \in 1..Len(calls_) |-> [functionCall |-> calls_[i]]],
              finishReason |-> finishReasonOf(ollamaResponse),
              text |-> undefined,
              functionCalls |-> Some(calls_)]
    ELSE [parts |-> textParts(ollamaResponse.response),
          finishReason |-> finishReasonOf(ollamaResponse),
          text |-> Some(ollamaResponse.response),
          functionCalls |-> undefined]

\* the per-chunk mapping of the copies of geminiStream without the tool_calls
\* branch: text parts and the top-level text, whatever else the chunk carries
partialGeminiResponseTextOnly(ollamaChunk) ==
    [parts |-> textParts(ollamaChunk.response),
     finishReason |-> IF ollamaChunk.done
                      THEN mapDoneReason(ollamaChunk.done_reason)
                      ELSE "FINISH_REASON_UNSPECIFIED",
     text |-> Some(ollamaChunk.response),
     functionCalls |-> undefined]

\* the GenerateContentResponse geminiStream builds for one chunk:
\*   const currentParts = currentText ? [{ text: currentText }] : [];
\*   if (ollamaChunk.tool_calls && ollamaChunk.tool_calls.length > 0) {
\*     partsForChunk = ollamaChunk.tool_calls.map(tc => ({ functionCall: fc }));
\*     functionCallsInChunk = mappedFCs; }
\*   text: functionCallsInChunk ? undefined : currentText,
\*   functionCalls: functionCallsInChunk
partialGeminiResponse(ollamaChunk) ==
    LET currentParts == textParts(ollamaChunk.response)
        finishReason_ == IF ollamaChunk.done
                         THEN mapDoneReason(ollamaChunk.done_reason)
                         ELSE "FINISH_REASON_UNSPECIFIED"
    IN  IF HasToolCalls(ollamaChunk)
        THEN LET mappedFCs == mappedFunctionCalls(ValueOf(ollamaChunk.tool_calls))
             IN  [parts |-> [k \in 1..Len(mappedFCs) |-> [functionCall |-> mappedFCs[k]]],
                  finishReason |-> finishReason_,
                  text |-> undefined,
                  functionCalls |-> Some(mappedFCs)]
        ELSE [parts |-> currentParts,
              finishReason |-> finishReason_,
              text |-> Some(ollamaChunk.response),
              functionCalls |-> undefined]

\* geminiStream, after the loop: the context it leaves in self.currentContext
contextAfterStream(held, final) ==
    IF IsDefined(final) /\ TruthyContext(ValueOf(final).context)
    THEN ValueOf(final).context
    ELSE held

(***************************************************************************)
(* The translator's calls.  A call is in flight from the moment            *)
(* generateContent or generateContentStream is entered until it has        *)
(* returned, failed, or its sequence has been consumed or abandoned; the   *)
(* next call starts only then (serialized calls).                          *)
(***************************************************************************)
Terminal == pc \in {"idle", "gc_done", "gs_completed", "gs_returned", "failed"}
InFlight == ~Terminal
Last(s) == s[Len(s)]

\* entry of either method: const ollamaParams = this.paramsFromGeminiRequest(request)
EnterCall(stream, nextPc) ==
    /\ Terminal
    /\ calls < MaxCalls
    /\ calls' = calls + 1
    /\ ollamaParams' = Some([paramsFromGeminiRequest(currentContext) EXCEPT !.stream = stream])
    /\ pc' = nextPc
    /\ heldBefore' = currentContext
    /\ chunks' = <<>>
    /\ yielded' = <<>>
    /\ finalOllamaResponse' = undefined
    /\ lastResponse' = undefined
    /\ reader' = "none"
    /\ callError' = "none"
    /\ UNCHANGED <<currentContext, heldAfterPrev, clientVars, restVars>>

\* generateContent up to its await of ollamaClient.generate
GenerateContent == EnterCall(FALSE, "gc_await")

\* generateContentStream: the params are built and geminiStream() is returned;
\* no statement of its body has run and ollamaClient.generate is not called
GenerateContentStream == EnterCall(TRUE, "gs_ready")

\* ollamaClient.generate resolves with one response: responseToGeminiResponse
GenerateResolves(ollamaResponse) ==
    /\ pc = "gc_await"
    /\ currentContext' = contextAfterResponse(currentContext, ollamaResponse)
    /\ lastResponse' = Some(responseToGeminiResponse(ollamaResponse))
    /\ chunks' = <<ollamaResponse>>
    /\ pc' = "gc_done"
    /\ heldAfterPrev' = currentContext'
    /\ UNCHANGED <<ollamaParams, yielded, finalOllamaResponse, calls, heldBefore,
                   callError, reader, clientVars, restVars>>

\* the errors the client's calls and chunk sequences fail with
ClientErrors == {"Ollama API request failed: 500 Internal Server Error - boom",
                 "fetch failed"}

rethrownAsGeneric(e) == "Error"

\* an error of the awaited client call, or of the iterated chunk sequence,
\* is caught, logged and thrown again: catch (error) { ...; throw error; }
rethrown(e) == e

\* ollamaClient.generate rejects with e (transport failure, non-2xx status)
GenerateRejects(e) ==
    /\ pc \in {"gc_await", "gs_await"}
    /\ pc' = "failed"
    /\ callError' = rethrown(e)
    /\ clientThrew' = e
    /\ heldAfterPrev' = currentContext
    /\ UNCHANGED <<currentContext, ollamaParams, chunks, yielded, finalOllamaResponse,
                   lastResponse, calls, heldBefore, reader, clientVars, utilVars, httpVars,
                   otherVars>>

\* ollamaClient.generate resolves with the chunk sequence and geminiStream
\* goes on to its for await: the client sequence runs to its first await
\* reader.read(), getReader() has run; or response.body is null, the client
\* sequence throws and geminiStream with it
StreamResolves ==
    /\ pc = "gs_await"
    /\ \/ /\ reader' = "open"
          /\ pc' = "gs_ready"
          /\ UNCHANGED <<currentContext, ollamaParams, chunks, yielded,
                         finalOllamaResponse, lastResponse, calls, heldBefore,
                         heldAfterPrev, callError, clientThrew>>
       \/ /\ pc' = "failed"
          /\ callError' = rethrown("Response body is null for streaming request.")
          /\ clientThrew' = "Response body is null for streaming request."
          /\ heldAfterPrev' = currentContext
          /\ UNCHANGED <<currentContext, ollamaParams, chunks, yielded,
                         finalOllamaResponse, lastResponse, calls, heldBefore, reader>>
    /\ UNCHANGED <<clientVars, utilVars, httpVars, otherVars>>

\* the context geminiStream holds while it is suspended at its yield
contextWhileYieldingEager(held, ollamaChunk) == contextAfterResponse(held, ollamaChunk)

contextWhileYielding(held, ollamaChunk) == held

\* the responses geminiStream has yielded once it yields the one for ollamaChunk
yieldNextDropEmpty(soFar, ollamaChunk) ==
    IF ollamaChunk.response = "" THEN soFar
    ELSE Append(soFar, partialGeminiResponse(ollamaChunk))

yieldNext(soFar, ollamaChunk) == Append(soFar, partialGeminiResponse(ollamaChunk))

\* the consumer's first next(): geminiStream runs to its
\* await self.ollamaClient.generate(ollamaParams)
FirstNext ==
    /\ pc = "gs_ready"
    /\ reader = "none"
    /\ pc' = "gs_await"
    /\ UNCHANGED <<currentContext, ollamaParams, chunks, yielded, finalOllamaResponse,
                   lastResponse, calls, heldBefore, heldAfterPrev, callError, reader,
                   clientVars, restVars>>

AwaitingChunkNoBreak ==
    \/ pc = "gs_ready" /\ reader = "open"
    \/ pc = "gs_suspended"

\* the loop of geminiStream awaits the next chunk of the client sequence,
\* which awaits reader.read()
AwaitingChunk ==
    \/ pc = "gs_ready" /\ reader = "open"
    \/ pc = "gs_suspended" /\ ~Last(chunks).done

\* for await (const ollamaChunk of stream) { ...; yield partialGeminiResponse;
\* the chunk is a line of the body, or what the buffer holds when reader.read()
\* has resolved with done (a last line with no newline after it)
StreamChunk(ollamaChunk) ==
    /\ AwaitingChunk
    /\ reader = "open"
    /\ Len(chunks) < MaxChunks
    /\ \E atEnd \in BOOLEAN : reader' = IF atEnd THEN "closed" ELSE "open"
    /\ chunks' = Append(chunks, ollamaChunk)
    /\ finalOllamaResponse' = Some(ollamaChunk)
    /\ yielded' = yieldNext(yielded, ollamaChunk)
    /\ currentContext' = contextWhileYielding(currentContext, ollamaChunk)
    /\ pc' = "gs_suspended"
    /\ UNCHANGED <<ollamaParams, lastResponse, calls, heldBefore, heldAfterPrev, callError,
                   clientVars, restVars>>

\* the client sequence ends (the body is read to its end, now or with the
\* chunk before): the loop exits and the context is taken from
\* finalOllamaResponse
StreamEnds ==
    /\ AwaitingChunk
    /\ reader' = "closed"
    /\ currentContext' = contextAfterStream(currentContext, finalOllamaResponse)
    /\ pc' = "gs_completed"
    /\ heldAfterPrev' = currentContext'
    /\ UNCHANGED <<ollamaParams, chunks, yielded, finalOllamaResponse, lastResponse,
                   calls, heldBefore, callError, clientVars, restVars>>

\* the context of the last chunk stored on the way out of a failing loop
StreamThrowsAfterUpdate(e) ==
    /\ AwaitingChunk
    /\ reader = "open"
    /\ reader' = "errored"
    /\ pc' = "failed"
    /\ callError' = rethrown(e)
    /\ clientThrew' = e
    /\ currentContext' = contextAfterStream(currentContext, finalOllamaResponse)
    /\ heldAfterPrev' = currentContext'
    /\ UNCHANGED <<ollamaParams, chunks, yielded, finalOllamaResponse,
                   lastResponse, calls, heldBefore, clientVars, utilVars, httpVars,
                   otherVars>>

\* the client sequence throws (reader.read() rejects): geminiStream throws
StreamThrows(e) ==
    /\ AwaitingChunk
    /\ reader = "open"
    /\ reader' = "errored"
    /\ pc' = "failed"
    /\ callError' = rethrown(e)
    /\ clientThrew' = e
    /\ heldAfterPrev' = currentContext
    /\ UNCHANGED <<currentContext, ollamaParams, chunks, yielded, finalOllamaResponse,
                   lastResponse, calls, heldBefore, clientVars, utilVars, httpVars,
                   otherVars>>

\* the consumer asks for more after the done chunk: if (ollamaChunk.done) break;
\* the break returns the client sequence, which never closes its reader
BreakOnDone ==
    /\ pc = "gs_suspended"
    /\ Last(chunks).done
    /\ currentContext' = contextAfterStream(currentContext, finalOllamaResponse)
    /\ pc' = "gs_completed"
    /\ heldAfterPrev' = currentContext'
    /\ UNCHANGED <<ollamaParams, chunks, yielded, finalOllamaResponse, lastResponse,
                   calls, heldBefore, callError, reader, clientVars, restVars>>

ConsumerReturnsFinally ==
    /\ (pc = "gs_ready" /\ reader = "none") \/ pc = "gs_suspended"
    /\ pc' = "gs_returned"
    /\ currentContext' = contextAfterStream(currentContext, finalOllamaResponse)
    /\ heldAfterPrev' = currentContext'
    /\ UNCHANGED <<ollamaParams, chunks, yielded, finalOllamaResponse,
                   lastResponse, calls, heldBefore, callError, reader, clientVars, restVars>>

\* the consumer stops iterating: return() ends geminiStream at its yield, or
\* before it has started
ConsumerReturns ==
    /\ (pc = "gs_ready" /\ reader = "none") \/ pc = "gs_suspended"
    /\ pc' = "gs_returned"
    /\ heldAfterPrev' = currentContext
    /\ UNCHANGED <<currentContext, ollamaParams, chunks, yielded, finalOllamaResponse,
                   lastResponse, calls, heldBefore, callError, reader, clientVars, restVars>>

ClientIdle ==
    /\ body = <<>>
    /\ bodyNull = FALSE
    /\ decoder = <<>>
    /\ buffer = <<>>
    /\ received = <<>>
    /\ cpc = "unused"
    /\ clientError = "none"
    /\ source = <<>>
    /\ partial = FALSE

GeneratorIdle ==
    /\ currentContext = undefined
    /\ pc = "idle"
    /\ ollamaParams = undefined
    /\ chunks = <<>>
    /\ yielded = <<>>
    /\ finalOllamaResponse = undefined
    /\ lastResponse = undefined
    /\ calls = 0
    /\ heldBefore = undefined
    /\ heldAfterPrev = undefined
    /\ callError = "none"

\* no countTokens or embedContent call has been made
UtilIdle ==
    /\ request = <<>>
    /\ upc = "unused"
    /\ totalTokens = undefined
    /\ promptText = <<>>
    /\ embeddingsCalls = 0
    /\ embedded = undefined
    /\ utilError = "none"
    /\ embeddingsThrew = "none"
    /\ clientThrew = "none"

\* no client operation and no fetchWithRetry call has been made
HttpIdle ==
    /\ op = "none"
    /\ streamFlag = undefined
    /\ fpc = "idle"
    /\ signalGiven = FALSE
    /\ timer = "none"
    /\ aborted = FALSE
    /\ callerAborted = FALSE
    /\ attempts = 0
    /\ response = undefined
    /\ fetchError = undefined
    /\ requests = 0
    /\ hpc = "idle"
    /\ outcome = undefined

\* the factory has not been called
FactoryIdle ==
    /\ model = undefined
    /\ authType = undefined
    /\ config = undefined
    /\ env = undefined
    /\ envRead = undefined
    /\ contentGeneratorConfig = undefined
    /\ generator = undefined
    /\ constructed = <<>>
    /\ factoryError = undefined
    /\ factoryPc = "unused"
    /\ validation = undefined

\* there is one instance only
PairIdle == peer = undefined /\ active = "A"

\* no request has been mapped
RequestIdle == geminiRequest = undefined /\ mappedParams = undefined

OtherIdle == FactoryIdle /\ PairIdle /\ RequestIdle

\* new OllamaContentGenerator(modelName, ollamaClient)
Init == GeneratorIdle /\ reader = "none" /\ ClientIdle /\ UtilIdle /\ HttpIdle /\ OtherIdle

TranslatorStep(Chunks) ==
    \/ GenerateContent
    \/ GenerateContentStream
    \/ \E r \in Chunks : GenerateResolves(r)
    \/ \E e \in ClientErrors : GenerateRejects(e)
    \/ FirstNext
    \/ StreamResolves
    \/ \E c \in Chunks : StreamChunk(c)
    \/ StreamEnds
    \/ \E e \in ClientErrors : StreamThrows(e)
    \/ BreakOnDone
    \/ ConsumerReturns

Next == TranslatorStep(ContextChunks)
Spec == Init /\ [][Next]_vars

NextReason == TranslatorStep(ReasonChunks)
SpecReason == Init /\ [][NextReason]_vars

NextTools == TranslatorStep(ToolChunks)
SpecTools == Init /\ [][NextTools]_vars

(***************************************************************************)
(* OllamaClient.generate with stream = true: streamGenerator.  The body is *)
(* a sequence of bytes; a character is one byte, except U+00E9, which is   *)
(* the two bytes 0xC3 0xA9.                                                *)
(***************************************************************************)
LF == "\n"
Quote == "\""
Whitespace == {" ", "\r", LF}

RECURSIVE Utf8(_)
\* new TextEncoder().encode(chars)
Utf8(chars) ==
    IF chars = <<>> THEN <<>>
    ELSE (IF Head(chars) = "U+00E9" THEN <<"0xC3", "0xA9">> ELSE <<Head(chars)>>)
             \o Utf8(Tail(chars))

RECURSIVE Decode(_, _)
\* decoder.decode(value, { stream: true }): the characters decoded from the
\* held-back bytes followed by value, and the bytes held back afterwards
Decode(held, value) ==
    IF value = <<>> THEN [chars |-> <<>>, held |-> held]
    ELSE LET b == Head(value)
             rest == Tail(value)
         IN  IF held = <<"0xC3">>
             THEN IF b = "0xA9"
                  THEN LET r == Decode(<<>>, rest)
                       IN  [chars |-> <<"U+00E9">> \o r.chars, held |-> r.held]
                  ELSE LET r == Decode(<<>>, value)
                       IN  [chars |-> <<"U+FFFD">> \o r.chars, held |-> r.held]
             ELSE IF b = "0xC3" THEN Decode(<<"0xC3">>, rest)
             ELSE LET r == Decode(<<>>, rest)
                  IN  [chars |-> <<IF b = "0xA9" THEN "U+FFFD" ELSE b>> \o r.chars,
                       held |-> r.held]

\* the text of a response field, character by character
ResponseChars(text) ==
    IF text = "" THEN <<>> ELSE <<text>>
ReasonCode(reason) ==
    CASE reason = "stop" -> "s" [] reason = "length" -> "l"
      [] reason = "load" -> "o" [] reason = "" -> "e"
ReasonOfCode(code) ==
    CASE code = "s" -> "stop" [] code = "l" -> "length"
      [] code = "o" -> "load" [] code = "e" -> ""
Digits == <<"1", "2", "3", "4", "5", "6">>
DigitOf(ch) == CHOOSE n \in 1..Len(Digits) : Digits[n] = ch

\* JSON.stringify of a chunk, one character per token: the response between
\* quotes, the done flag, the reason and the context array when present
JSONstringify(c) ==
    <<"{", Quote>> \o ResponseChars(c.response) \o <<Quote>>
        \o <<IF c.done THEN "t" ELSE "f">>
        \o (IF IsDefined(c.done_reason) THEN <<"r", ReasonCode(ValueOf(c.done_reason))>>
            ELSE <<>>)
        \o (IF IsDefined(c.context)
            THEN <<"[">> \o [i \in 1..Len(ValueOf(c.context)) |->
                                Digits[ValueOf(c.context)[i]]] \o <<"]">>
            ELSE <<>>)
        \o <<"}">>

\* JSON.parse of the same encoding: the chunk, or undefined for a SyntaxError
JSONparse(s) ==
    LET n == Len(s)
        closing == {i \in 3..(n - 1) : s[i] = Quote}
    IN  IF n < 5 \/ s[1] # "{" \/ s[n] # "}" \/ s[2] # Quote \/ closing = {}
        THEN undefined
        ELSE
        LET j == CHOOSE i \in closing : \A k \in closing : i <= k
            text == SubSeq(s, 3, j - 1)
            rest0 == SubSeq(s, j + 2, n - 1)
            hasReason == Len(rest0) >= 2 /\ rest0[1] = "r"
                             /\ rest0[2] \in {"s", "l", "o", "e"}
            rest1 == IF hasReason THEN SubSeq(rest0, 3, Len(rest0)) ELSE rest0
            m == Len(rest1)
            contextOk ==
                \/ m = 0
                \/ /\ m >= 2
                   /\ rest1[1] = "["
                   /\ rest1[m] = "]"
                   /\ \A i \in 2..(m - 1) : \E d \in 1..Len(Digits) : Digits[d] = rest1[i]
        IN  IF \/ j + 1 > n - 1
               \/ s[j + 1] \notin {"t", "f"}
               \/ Len(text) > 1
               \/ \E i \in 1..Len(text) : text[i] \notin {"a", "U+00E9"}
               \/ ~contextOk
            THEN undefined
            ELSE Some([response |-> IF text = <<>> THEN "" ELSE text[1],
                       done |-> s[j + 1] = "t",
                       done_reason |-> IF hasReason THEN Some(ReasonOfCode(rest0[2]))
                                       ELSE undefined,
                       context |-> IF m = 0 THEN undefined
                                   ELSE Some([i \in 1..(m - 2) |-> DigitOf(rest1[i + 1])]),
                       tool_calls |-> undefined])

RECURSIVE trim(_)
\* String.prototype.trim
trim(s) ==
    IF s = <<>> THEN <<>>
    ELSE IF Head(s) \in Whitespace THEN trim(Tail(s))
    ELSE IF Last(s) \in Whitespace THEN trim(SubSeq(s, 1, Len(s) - 1))
    ELSE s

\* buffer.indexOf('\n'), counted from 1; 0 when there is none
indexOfNewline(s) ==
    IF \E i \in 1..Len(s) : s[i] = LF
    THEN CHOOSE i \in 1..Len(s) : s[i] = LF /\ \A k \in 1..(i - 1) : s[k] # LF
    ELSE 0

RECURSIVE extractLines(_)

catchParseErrorThrow(rest) == [buffer |-> rest, out |-> undefined, thrown |-> TRUE]

\* catch (e) { toolLogger.error(...) }: the loop goes on with the next line
catchParseError(rest) == extractLines(rest)

\* while ((newlineIndex = buffer.indexOf('\n')) !== -1) { ... }, run until
\* its next yield: the buffer left, and the chunk yielded if it reached one
extractLines(buf) ==
    LET newlineIndex == indexOfNewline(buf)
    IN  IF newlineIndex = 0
        THEN [buffer |-> buf, out |-> undefined, thrown |-> FALSE]
        ELSE LET line == trim(SubSeq(buf, 1, newlineIndex - 1))
                 rest == SubSeq(buf, newlineIndex + 1, Len(buf))
             IN  IF line = <<>> THEN extractLines(rest)
                 ELSE IF IsDefined(JSONparse(line))
                      THEN [buffer |-> rest, out |-> JSONparse(line), thrown |-> FALSE]
                      ELSE catchParseError(rest)

finalChunkDropped(buf) == undefined

\* if (done) { if (buffer.trim()) { try { yield JSON.parse(buffer.trim()) } catch {} } }
finalChunk(buf) ==
    IF trim(buf) # <<>> THEN JSONparse(trim(buf)) ELSE undefined

\* the chunks the client's decoder is given: a text of one or two bytes, the
\* terminal chunk with its reason and context
ClientChunks ==
    {[response |-> t, done |-> FALSE, done_reason |-> undefined, context |-> undefined,
      tool_calls |-> undefined] : t \in {"a", "U+00E9"}}
    \cup {[response |-> "", done |-> TRUE, done_reason |-> Some("stop"),
           context |-> Some(<<1, 2>>), tool_calls |-> undefined]}

\* a line holding one chunk: as JSON.stringify writes it, or (the chunk with
\* text "a") with a space before it and a carriage return after it
ObjectLines ==
    {[bytes |-> IF c.response = "a"
                THEN <<" ">> \o Utf8(JSONstringify(c)) \o <<"\r">>
                ELSE Utf8(JSONstringify(c)),
      object |-> Some(c), kind |-> "object"] : c \in ClientChunks}
MalformedLines ==
    {[bytes |-> b, object |-> undefined, kind |-> "malformed"] :
        b \in {<<"x">>, <<"{", Quote, "0xC3">>}}
BlankLines ==
    {[bytes |-> b, object |-> undefined, kind |-> "blank"] : b \in {<<" ", "\r">>}}
Lines == ObjectLines \cup MalformedLines \cup BlankLines

RECURSIVE joinLines(_)
\* the lines, a newline between each two
joinLines(ls) ==
    IF ls = <<>> THEN <<>>
    ELSE IF Len(ls) = 1 THEN ls[1].bytes
    ELSE ls[1].bytes \o <<LF>> \o joinLines(Tail(ls))

\* the body the backend writes for these lines
bodyOf(src) == joinLines(src.lines) \o (IF src.trailing THEN <<LF>> ELSE <<>>)

Sources ==
    {[lines |-> ls, trailing |-> t] :
        ls \in UNION {[1..n -> Lines] : n \in 0..MaxLines}, t \in BOOLEAN}

\* const response = await fetchWithTimeout(...); return streamGenerator(...)
InitClient ==
    /\ GeneratorIdle
    /\ UtilIdle
    /\ HttpIdle
    /\ OtherIdle
    /\ reader = "none"
    /\ \E src \in Sources, isNull \in BOOLEAN :
           /\ isNull => src = [lines |-> <<>>, trailing |-> FALSE]
           /\ source = src
           /\ bodyNull = isNull
           /\ body = bodyOf(src)
    /\ decoder = <<>>
    /\ buffer = <<>>
    /\ received = <<>>
    /\ cpc = "start"
    /\ clientError = "none"
    /\ partial = FALSE

\* the consumer's first next(): if (!response.body) throw; getReader()
ClientStart ==
    /\ cpc = "start"
    /\ IF bodyNull
       THEN cpc' = "thrown" /\ clientError' = "null_body" /\ reader' = reader
       ELSE cpc' = "reading" /\ clientError' = clientError /\ reader' = "open"
    /\ UNCHANGED <<restVars, genVars, body, bodyNull, decoder, buffer, received, source, partial>>

\* the line loop runs from buf to its next yield, or to the next read
RunLineLoop(buf) ==
    LET r == extractLines(buf)
    IN  /\ buffer' = r.buffer
        /\ IF r.thrown
           THEN cpc' = "thrown" /\ clientError' = "parse_error" /\ received' = received
           ELSE IF IsDefined(r.out)
           THEN cpc' = "yielded" /\ clientError' = clientError
                    /\ received' = Append(received, ValueOf(r.out))
           ELSE cpc' = "reading" /\ clientError' = clientError /\ received' = received

\* await reader.read() resolves with the next k bytes of the body, for any k
ReaderRead ==
    /\ cpc = "reading"
    /\ \E k \in 1..Len(body) :
           LET d == Decode(decoder, SubSeq(body, 1, k))
           IN  /\ decoder' = d.held
               /\ RunLineLoop(buffer \o d.chars)
               /\ partial' = (partial \/ (k < Len(body) /\ body[k] # LF))
               /\ body' = SubSeq(body, k + 1, Len(body))
    /\ UNCHANGED <<restVars, genVars, reader, bodyNull, source>>

\* await reader.read() resolves with done: the rest of the buffer, then break
ReaderDone ==
    /\ cpc = "reading"
    /\ body = <<>>
    /\ reader' = "closed"
    /\ IF IsDefined(finalChunk(buffer))
       THEN cpc' = "yielded_final" /\ received' = Append(received, ValueOf(finalChunk(buffer)))
       ELSE cpc' = "ended" /\ received' = received
    /\ UNCHANGED <<restVars, genVars, body, bodyNull, decoder, buffer, clientError, source, partial>>

\* await reader.read() rejects: the error leaves streamGenerator
ReaderFails ==
    /\ cpc = "reading"
    /\ reader' = "errored"
    /\ cpc' = "thrown"
    /\ clientError' = "read_error"
    /\ UNCHANGED <<restVars, genVars, body, bodyNull, decoder, buffer, received, source, partial>>

\* the consumer asks for the next chunk
ClientNext ==
    /\ cpc \in {"yielded", "yielded_final"}
    /\ IF cpc = "yielded"
       THEN RunLineLoop(buffer)
       ELSE cpc' = "ended" /\ UNCHANGED <<buffer, received, clientError>>
    /\ UNCHANGED <<restVars, genVars, reader, body, bodyNull, decoder, source, partial>>

\* the consumer stops iterating: return() ends streamGenerator where it stands
ClientReturn ==
    /\ cpc \in {"start", "yielded", "yielded_final"}
    /\ cpc' = "returned"
    /\ UNCHANGED <<restVars, genVars, reader, body, bodyNull, decoder, buffer, received,
                   clientError, source, partial>>

NextClient ==
    \/ ClientStart
    \/ ReaderRead
    \/ ReaderDone
    \/ ReaderFails
    \/ ClientNext
    \/ ClientReturn

SpecClient == InitClient /\ [][NextClient]_vars

(***************************************************************************)
(* Claims about the client's stream decoder (SpecClient).                  *)
(***************************************************************************)
IsPrefix(a, b) == Len(a) <= Len(b) /\ a = SubSeq(b, 1, Len(a))
ObjectLine(l) == l.kind = "object"
\* the chunks the backend wrote, in the order of their lines
SourceObjects == LET ls == SelectSeq(source.lines, ObjectLine)
                 IN  [i \in 1..Len(ls) |-> ValueOf(ls[i].object)]
AllObjects == \A i \in 1..Len(source.lines) : source.lines[i].kind = "object"
HasMalformed == \E i \in 1..Len(source.lines) : source.lines[i].kind = "malformed"
Decoding == cpc # "unused" /\ ~bodyNull

\* C1: a body of N lines, each one chunk, read in pieces of any sizes, with or
\* without a newline after the last line: the chunks yielded so far are the
\* first chunks of the body, in order and equal to them, and when the
\* generator ends they are all N.
C1_ChunksInOrder ==
    (Decoding /\ AllObjects) =>
        /\ IsPrefix(received, SourceObjects)
        /\ cpc = "ended" => received = SourceObjects

\* two chunks, the second with a two-byte character and no newline after it,
\* a read having ended inside a line, decoded to the end
C1_Witness ==
    /\ Decoding /\ AllObjects
    /\ cpc = "ended"
    /\ partial
    /\ ~source.trailing
    /\ Len(source.lines) = 2
    /\ Len(received) = 2
    /\ received[2].response = "U+00E9"

\* C2: a body with a line that is not JSON, in the middle or as the final
\* buffer without a newline: the generator never fails on it, the chunks
\* yielded are those of the other lines in order, and all of them once the
\* generator ends.
C2_MalformedSkipped ==
    (Decoding /\ HasMalformed) =>
        /\ clientError # "parse_error"
        /\ cpc = "thrown" => clientError = "read_error"
        /\ IsPrefix(received, SourceObjects)
        /\ cpc = "ended" => received = SourceObjects

\* a chunk, a malformed line, a chunk, decoded to the end with both chunks
\* yielded
C2_Witness ==
    /\ Decoding
    /\ cpc = "ended"
    /\ Len(source.lines) = 3
    /\ source.lines[1].kind = "object"
    /\ source.lines[2].kind = "malformed"
    /\ source.lines[3].kind = "object"
    /\ Len(received) = 2

(***************************************************************************)
(* Claims about the translator.                                            *)
(***************************************************************************)
Streaming == pc \in {"gs_ready", "gs_suspended", "gs_completed", "gs_returned"}

\* C3: when a generateContent call has completed and its response carried a
\* context, the held context is exactly that context: the earlier one is
\* replaced, not merged with it.
C3_ContextReplacedWholesale ==
    (pc = "gc_done" /\ IsDefined(chunks[1].context))
        => currentContext = chunks[1].context

C3_Witness ==
    /\ pc = "gc_done"
    /\ calls = 2
    /\ heldBefore = Some(<<1, 2, 3>>)
    /\ chunks[1].context = Some(<<4, 5, 6>>)

\* C4: the generate request of the first call carries no context, and the
\* request of every later call carries the context held when the previous
\* call ended.
C4_RequestCarriesHeldContext ==
    InFlight =>
        /\ IsDefined(ollamaParams)
        /\ ValueOf(ollamaParams).context = heldAfterPrev
        /\ calls = 1 => ValueOf(ollamaParams).context = undefined

C4_Witness ==
    /\ InFlight
    /\ calls = 2
    /\ ValueOf(ollamaParams).stream
    /\ ValueOf(ollamaParams).context = Some(<<4, 5, 6>>)

\* the context of the last chunk of s that carried one
RECURSIVE LastCarriedContext(_)
LastCarriedContext(s) ==
    IF s = <<>> THEN undefined
    ELSE IF IsDefined(Last(s).context) THEN Last(s).context
    ELSE LastCarriedContext(SubSeq(s, 1, Len(s) - 1))

\* C5 as stated: unchanged while chunks are yielded, and after the sequence
\* is consumed the held context is that of the last chunk that carried one.
C5_Original ==
    /\ pc = "gs_suspended" => currentContext = heldBefore
    /\ (pc = "gs_completed" /\ IsDefined(LastCarriedContext(chunks)))
           => currentContext = LastCarriedContext(chunks)

\* C5 amended: unchanged while chunks are yielded; after the sequence is
\* consumed the held context is that of the last chunk received if that chunk
\* carried one, and is otherwise what it was before the call.
C5_ContextFromFinalChunk ==
    /\ pc = "gs_suspended" => currentContext = heldBefore
    /\ pc = "gs_completed" =>
           currentContext =
               IF chunks # <<>> /\ IsDefined(Last(chunks).context)
               THEN Last(chunks).context
               ELSE heldBefore

C5_Witness ==
    /\ pc = "gs_completed"
    /\ Len(chunks) = 2
    /\ IsDefined(chunks[1].context)
    /\ IsDefined(chunks[2].context)
    /\ chunks[2].context # chunks[1].context
    /\ chunks[2].context # heldBefore

\* C6: a consumer that stops before the sequence has ended raises no error
\* and leaves the held context as it was before the call.
C6_EarlyStopKeepsContext ==
    pc = "gs_returned" => callError = "none" /\ currentContext = heldBefore

C6_Witness ==
    /\ pc = "gs_returned"
    /\ chunks # <<>>
    /\ Last(chunks).done
    /\ IsDefined(Last(chunks).context)
    /\ Last(chunks).context # heldBefore

\* C7 as stated: once iteration has stopped, the body reader is not left open.
C7_Original ==
    /\ pc \in {"gs_completed", "gs_returned"} => reader # "open"
    /\ cpc = "returned" => reader # "open"

\* C8: the i-th response yielded carries the text of the i-th chunk the
\* client produced; none is dropped, duplicated or out of order.
C8_ResponsesFollowChunks ==
    Streaming =>
        /\ Len(yielded) = Len(chunks)
        /\ \A i \in 1..Len(yielded) :
               /\ yielded[i].text = Some(chunks[i].response)
               /\ yielded[i].parts = textParts(chunks[i].response)

C8_Witness ==
    /\ pc = "gs_suspended"
    /\ Len(yielded) = 2
    /\ chunks[1].response # chunks[2].response

\* C9 as stated: a sequence that ends normally ends with a done chunk.
C9_Original ==
    (pc = "gs_completed" /\ yielded # <<>>) => Last(chunks).done

\* C9 amended: a fully consumed sequence has a response for every chunk
\* received; only its last chunk can be a done chunk, and the sequence then
\* ended by the break; with no done chunk it ended because the client
\* sequence ended, its last chunk being one with done false.
C9_EndsAtFirstDoneOrAtEndOfBody ==
    pc = "gs_completed" =>
        /\ Len(yielded) = Len(chunks)
        /\ \A i \in 1..(Len(chunks) - 1) : ~chunks[i].done
        /\ reader \in {"open", "closed"}
        /\ reader = "open" => (chunks # <<>> /\ Last(chunks).done)
        /\ (chunks = <<>> \/ ~Last(chunks).done) => reader = "closed"

C9_Witness ==
    /\ pc = "gs_completed"
    /\ Len(chunks) = 2
    /\ Last(chunks).done
    /\ Last(yielded).finishReason = "STOP"

\* the finish reason C10 states for a chunk
C10_Expected(c) ==
    IF ~c.done THEN "FINISH_REASON_UNSPECIFIED"
    ELSE IF c.done_reason = Some("stop") THEN "STOP"
    ELSE IF c.done_reason = Some("length") THEN "MAX_TOKENS"
    ELSE "OTHER"

\* C10 as stated: STOP for "stop", MAX_TOKENS for "length", OTHER for any
\* other or absent reason of a done chunk, UNSPECIFIED for a chunk not done.
C10_Original ==
    Streaming =>
        \A i \in 1..Len(yielded) : yielded[i].finishReason = C10_Expected(chunks[i])

(***************************************************************************)
(* Claims about generateContent's result.                                  *)
(***************************************************************************)
Returned == pc = "gc_done" /\ IsDefined(lastResponse)

\* C11: the finish reason generateContent returns depends on done and
\* done_reason only: UNSPECIFIED when done is false, whatever the reason;
\* when done is true, STOP for "stop", MAX_TOKENS for "length", OTHER for any
\* other string and for an absent reason.
C11_FinishReasonOfResponse ==
    Returned =>
        LET r == chunks[1]
            reason == ValueOf(lastResponse).finishReason
        IN  /\ ~r.done => reason = "FINISH_REASON_UNSPECIFIED"
            /\ (r.done /\ r.done_reason = Some("stop")) => reason = "STOP"
            /\ (r.done /\ r.done_reason = Some("length")) => reason = "MAX_TOKENS"
            /\ (r.done /\ r.done_reason \notin {Some("stop"), Some("length")})
                   => reason = "OTHER"

\* a done response without a reason has been returned with OTHER
C11_Witness ==
    /\ Returned
    /\ chunks[1].done
    /\ chunks[1].done_reason = undefined
    /\ ValueOf(lastResponse).finishReason = "OTHER"

TextPartsOf(parts) == {i \in 1..Len(parts) : "text" \in DOMAIN parts[i]}
FunctionCallPartsOf(parts) == {i \in 1..Len(parts) : "functionCall" \in DOMAIN parts[i]}

\* C12: when the response generateContent receives carries at least one tool
\* call, the candidate has no text part and one function-call part per tool
\* call, in the same order, with the call's name and its parameters as args,
\* and the top-level text is absent, whatever response text came with it.
C12_ToolCallsBecomeFunctionCalls ==
    (Returned /\ IsDefined(chunks[1].tool_calls) /\ Len(ValueOf(chunks[1].tool_calls)) >= 1) =>
        LET toolCalls == ValueOf(chunks[1].tool_calls)
            out == ValueOf(lastResponse)
        IN  /\ TextPartsOf(out.parts) = {}
            /\ Len(out.parts) = Len(toolCalls)
            /\ \A i \in 1..Len(toolCalls) :
                   /\ "functionCall" \in DOMAIN out.parts[i]
                   /\ out.parts[i].functionCall.name = toolCalls[i].name
                   /\ out.parts[i].functionCall.args = toolCalls[i].parameters
            /\ out.text = undefined

\* two tool calls beside the text "a" have been returned as two parts
C12_Witness ==
    /\ Returned
    /\ chunks[1].response = "a"
    /\ IsDefined(chunks[1].tool_calls)
    /\ Len(ValueOf(chunks[1].tool_calls)) = 2
    /\ Len(ValueOf(lastResponse).parts) = 2
    /\ ValueOf(lastResponse).parts[1].functionCall.name = "g"

\* the candidates of the current call, each with the response or chunk it
\* was built from
Candidates ==
    (IF Returned THEN {<<ValueOf(lastResponse), chunks[1]>>} ELSE {})
        \cup {<<yielded[i], chunks[i]>> : i \in 1..Len(yielded)}

\* C13 as stated: every candidate has text parts or function-call parts, and
\* not both.
C13_Original ==
    \A c \in Candidates :
        (TextPartsOf(c[1].parts) # {}) # (FunctionCallPartsOf(c[1].parts) # {})

\* C13, amended: no candidate has both text parts and function-call parts;
\* generateContent's candidate has one of the two unless the response has
\* empty text and no tool calls, and then it has no parts; the candidate
\* yielded for a chunk without tool calls has a text part exactly when the
\* chunk's text is not empty.
C13_AtMostOneKindOfParts ==
    /\ \A c \in Candidates :
           /\ TextPartsOf(c[1].parts) = {} \/ FunctionCallPartsOf(c[1].parts) = {}
           /\ (~IsDefined(c[2].tool_calls) \/ ValueOf(c[2].tool_calls) = <<>>) =>
                  /\ FunctionCallPartsOf(c[1].parts) = {}
                  /\ (TextPartsOf(c[1].parts) # {}) = (c[2].response # "")
    /\ Returned =>
           (ValueOf(lastResponse).parts = <<>>)
               = (chunks[1].response = ""
                    /\ (~IsDefined(chunks[1].tool_calls) \/ ValueOf(chunks[1].tool_calls) = <<>>))

\* a done chunk with empty text and no tool calls has been yielded with no
\* parts
C13_Witness ==
    /\ Streaming
    /\ Len(yielded) = 2
    /\ chunks[2].done
    /\ chunks[2].response = ""
    /\ chunks[2].tool_calls = undefined
    /\ yielded[2].parts = <<>>
    /\ yielded[1].parts # <<>>

(***************************************************************************)
(* countTokens and embedContent.  A text is a sequence of characters; a    *)
(* part is a text part, or a part without text (a function call); an item  *)
(* of a contents array is a Content with parts, or a bare string.  A part  *)
(* whose text is the empty string is read by both methods as a part        *)
(* without text, and is not drawn separately.                              *)
(***************************************************************************)
TextOfLength(n) == [i \in 1..n |-> "x"]
Parts == {[text |-> Some(TextOfLength(1))], [text |-> Some(TextOfLength(13))],
          [text |-> undefined]}
PartLists == UNION {[1..n -> Parts] : n \in 0..MaxParts}
Items == {[kind |-> "content", parts |-> ps] : ps \in PartLists}
             \cup {[kind |-> "string", text |-> TextOfLength(1)]}
\* request.contents: string | Content | Array<string | Content>
ContentListUnion ==
    {[kind |-> "string", text |-> t] : t \in {<<>>, TextOfLength(1), TextOfLength(13)}}
        \cup {[kind |-> "content", parts |-> ps] : ps \in PartLists}
        \cup {[kind |-> "array", items |-> is] :
                 is \in UNION {[1..n -> Items] : n \in 0..MaxTurns}}

RECURSIVE partsChars(_)
\* parts.forEach(part => { if (part.text && typeof part.text === 'string')
\*                           numChars += part.text.length })
partsChars(ps) ==
    IF ps = <<>> THEN 0
    ELSE (IF IsDefined(Head(ps).text) THEN Len(ValueOf(Head(ps).text)) ELSE 0)
             + partsChars(Tail(ps))

RECURSIVE itemsChars(_)
\* request.contents.forEach(contentItem => ...)
itemsChars(is) ==
    IF is = <<>> THEN 0
    ELSE (IF Head(is).kind = "content" THEN partsChars(Head(is).parts)
          ELSE Len(Head(is).text))
             + itemsChars(Tail(is))

\* countTokens: numChars
numChars(contents) ==
    CASE contents.kind = "string" -> Len(contents.text)
      [] contents.kind = "array" -> itemsChars(contents.items)
      [] contents.kind = "content" -> partsChars(contents.parts)

estimatedTokensBy4(n) == (n + 3) \div 4

\* Math.ceil(numChars / 3.5)
estimatedTokens(n) == (2 * n + 6) \div 7

\* countTokens(request) has run: { totalTokens: estimatedTokens }
CountTokens ==
    /\ upc = "ready"
    /\ totalTokens' = Some(estimatedTokens(numChars(request)))
    /\ upc' = "ct_done"
    /\ UNCHANGED <<clientThrew, httpVars, genVars, reader, clientVars, otherVars, request,
                   promptText,
                   embeddingsCalls, embedded, utilError, embeddingsThrew>>

RECURSIVE joinTexts(_)
\* parts.map(part => part.text || '').join(' ')
joinTexts(ps) ==
    IF ps = <<>> THEN <<>>
    ELSE LET t == IF IsDefined(Head(ps).text) THEN ValueOf(Head(ps).text) ELSE <<>>
         IN  IF Len(ps) = 1 THEN t ELSE t \o <<" ">> \o joinTexts(Tail(ps))

\* embedContent: promptText; "TypeError" when the array is empty and
\* 'parts' in lastContentItem is evaluated on undefined
promptTextOf(contents) ==
    CASE contents.kind = "string" -> Some(contents.text)
      [] contents.kind = "content" -> Some(joinTexts(contents.parts))
      [] contents.kind = "array" ->
            IF contents.items = <<>> THEN undefined
            ELSE LET lastContentItem == contents.items[Len(contents.items)]
                 IN  IF lastContentItem.kind = "content"
                     THEN Some(joinTexts(lastContentItem.parts))
                     ELSE Some(<<>>)

promptMissingNever(text) == FALSE

\* if (!promptText)
promptMissing(text) == text = <<>>

PromptRequired == "Prompt text is required for Ollama embedContent."
Embeddings == {<<1, 2>>, <<3>>}

\* embedContent(request) up to await this.ollamaClient.embeddings(ollamaParams)
EmbedContent ==
    /\ upc = "ready"
    /\ LET p == promptTextOf(request)
       IN  IF ~IsDefined(p)
           THEN /\ upc' = "ec_failed" /\ utilError' = "TypeError"
                /\ UNCHANGED <<promptText, embeddingsCalls>>
           ELSE /\ promptText' = ValueOf(p)
                /\ IF promptMissing(ValueOf(p))
                   THEN /\ upc' = "ec_failed" /\ utilError' = PromptRequired
                        /\ UNCHANGED embeddingsCalls
                   ELSE /\ upc' = "ec_await" /\ utilError' = utilError
                        /\ embeddingsCalls' = embeddingsCalls + 1
    /\ UNCHANGED <<clientThrew, httpVars, genVars, reader, clientVars, otherVars, request,
                   totalTokens,
                   embedded, embeddingsThrew>>

\* ollamaClient.embeddings resolves: { embeddings: [{ values: embedding }] }
EmbeddingsResolves(embedding) ==
    /\ upc = "ec_await"
    /\ embedded' = Some(<<[values |-> embedding]>>)
    /\ upc' = "ec_done"
    /\ UNCHANGED <<clientThrew, httpVars, genVars, reader, clientVars, otherVars, request,
                   totalTokens,
                   promptText, embeddingsCalls, utilError, embeddingsThrew>>

\* ollamaClient.embeddings rejects with e
EmbeddingsRejects(e) ==
    /\ upc = "ec_await"
    /\ utilError' = rethrown(e)
    /\ embeddingsThrew' = e
    /\ upc' = "ec_failed"
    /\ UNCHANGED <<clientThrew, httpVars, genVars, reader, clientVars, otherVars, request,
                   totalTokens,
                   promptText, embeddingsCalls, embedded>>

InitUtil ==
    /\ GeneratorIdle
    /\ HttpIdle
    /\ OtherIdle
    /\ clientThrew = "none"
    /\ reader = "none"
    /\ ClientIdle
    /\ request \in ContentListUnion
    /\ upc = "ready"
    /\ totalTokens = undefined
    /\ promptText = <<>>
    /\ embeddingsCalls = 0
    /\ embedded = undefined
    /\ utilError = "none"
    /\ embeddingsThrew = "none"

NextUtil ==
    \/ CountTokens
    \/ EmbedContent
    \/ \E embedding \in Embeddings : EmbeddingsResolves(embedding)
    \/ \E e \in ClientErrors : EmbeddingsRejects(e)

SpecUtil == InitUtil /\ [][NextUtil]_vars

\* The translator with all its methods, for the errors of the client: the
\* chunks without context, an embedContent request with and without text.
ErrorChunks == {c \in ContextChunks : c.response = "a" /\ c.context = undefined}
ErrorRequests == {[kind |-> "string", text |-> TextOfLength(1)],
                  [kind |-> "content", parts |-> <<>>]}
InitErrors ==
    /\ InitUtil
    /\ request \in ErrorRequests
NextErrors ==
    \/ TranslatorStep(ErrorChunks)
    \/ NextUtil
SpecErrors == InitErrors /\ [][NextErrors]_vars

(***************************************************************************)
(* Claims about countTokens and embedContent (SpecUtil).                   *)
(***************************************************************************)
RECURSIVE AllPartsText(_)
\* the texts of the text parts, one after the other
AllPartsText(ps) ==
    IF ps = <<>> THEN <<>>
    ELSE (IF Head(ps).text = undefined THEN <<>> ELSE Head(ps).text[1])
             \o AllPartsText(Tail(ps))
RECURSIVE AllItemsText(_)
AllItemsText(is) ==
    IF is = <<>> THEN <<>>
    ELSE (IF Head(is).kind = "string" THEN Head(is).text ELSE AllPartsText(Head(is).parts))
             \o AllItemsText(Tail(is))
\* every character of the request's text
AllText ==
    IF request.kind = "string" THEN request.text
    ELSE IF request.kind = "content" THEN AllPartsText(request.parts)
    ELSE AllItemsText(request.items)

\* C14: countTokens returns the ceiling of L / 3.5, the least t with
\* 7 t >= 2 L, where L is the number of characters of all text parts of all
\* turns, or of the bare string.
C14_CeilingOfCharsOver3_5 ==
    upc = "ct_done" =>
        LET L == Len(AllText)
            t == ValueOf(totalTokens)
        IN  /\ 7 * t >= 2 * L
            /\ 7 * (t - 1) < 2 * L

\* 27 characters over two turns have been counted as 8 tokens
C14_Witness ==
    /\ upc = "ct_done"
    /\ request.kind = "array"
    /\ Len(request.items) = 2
    /\ Len(AllText) = 27
    /\ totalTokens = Some(8)

ZeroPartsTurn ==
    \/ request = [kind |-> "content", parts |-> <<>>]
    \/ request = [kind |-> "array", items |-> <<[kind |-> "content", parts |-> <<>>]>>]
EmbedContentCalled == upc \in {"ec_await", "ec_done", "ec_failed"}

\* C15: embedContent on a single turn with no parts fails with the message
\* 'Prompt text is required for Ollama embedContent.' and
\* ollamaClient.embeddings is not called.
C15_EmptyPromptRejected ==
    (EmbedContentCalled /\ ZeroPartsTurn) =>
        /\ upc = "ec_failed"
        /\ utilError = "Prompt text is required for Ollama embedContent."
        /\ embeddingsCalls = 0
        /\ embedded = undefined

\* embedContent has failed on an array holding one turn without parts
C15_Witness ==
    /\ request = [kind |-> "array", items |-> <<[kind |-> "content", parts |-> <<>>]>>]
    /\ upc = "ec_failed"
    /\ embeddingsCalls = 0

(***************************************************************************)
(* fetchWithRetry, and the OllamaClient operations that await it.          *)
(***************************************************************************)
\* what fetch can resolve with
StatusTexts == [s \in {200, 404, 500} |->
                   CASE s = 200 -> "OK" [] s = 404 -> "Not Found"
                     [] s = 500 -> "Internal Server Error"]
\* the body is a text, character by character: boom, nothing, or a done chunk
\* as JSON.stringify writes it
Responses_http ==
    {[status |-> st, statusText |-> StatusTexts[st], bodyText |-> b] :
        st \in {200, 404, 500},
        b \in {<<"b", "o", "o", "m">>, <<>>,
               JSONstringify([response |-> "", done |-> TRUE, done_reason |-> Some("stop"),
                              context |-> Some(<<1, 2>>), tool_calls |-> undefined])}}
\* response.ok
ok(resp) == resp.status >= 200 /\ resp.status <= 299

\* what fetch can reject with once its signal is aborted: Node's AbortError
\* with code 'ABORT_ERR', or a DOMException named AbortError whose code is the
\* number 20, as the runtime has it
AbortRejections ==
    {[name |-> "AbortError", code |-> Some("ABORT_ERR"), message |-> "The operation was aborted"],
     [name |-> "AbortError", code |-> Some("20"), message |-> "This operation was aborted"]}
\* what fetch can reject with otherwise
NetworkRejections ==
    {[name |-> "TypeError", code |-> undefined, message |-> "fetch failed"],
     [name |-> "Error", code |-> Some("ECONNREFUSED"), message |-> "connect ECONNREFUSED"]}

\* the catch block of fetchWithRetry: the FetchError it throws
FetchError(error, timeoutIdSet, controllerAborted) ==
    IF IsDefined(error.code) /\ ValueOf(error.code) = "ABORT_ERR"
    THEN IF timeoutIdSet /\ controllerAborted
         THEN [name |-> "FetchError", message |-> "Request timed out after 10000ms",
               code |-> Some("ETIMEDOUT")]
         ELSE [name |-> "FetchError",
               message |-> IF error.message # "" THEN error.message ELSE "Request aborted",
               code |-> Some("ABORT_ERR")]
    ELSE [name |-> "FetchError", message |-> error.message, code |-> undefined]

timerAfterErrorKept(t) == t

\* finally { if (timeoutId) clearTimeout(timeoutId) }
timerAfterFinally(t) == IF t = "none" THEN "none" ELSE "cleared"

retryOnce(n) == n < 2

\* "Actual retry logic is not implemented here yet": the catch block throws
retryAfterFailure(n) == FALSE

ClientOperations == {"listModels", "showModelDetails", "embeddings", "generate"}

\* OllamaGenerateParams.stream: omitted, false or true
StreamFlags == {undefined, Some(FALSE), Some(TRUE)}

resultIsSequenceIfTruthy(flag) == flag = Some(TRUE)

\* if (params.stream === false) { return responseJson } else { return
\* streamGenerator(...) }: TRUE when generate returns the sequence
resultIsSequence(flag) == flag # Some(FALSE)

\* the timer started whether or not the caller gave a signal
EnterFetchTimerAlways(sig) ==
    /\ fpc = "idle"
    /\ signalGiven' = sig
    /\ timer' = "pending"
    /\ attempts' = attempts + 1
    /\ fpc' = "awaiting"
    /\ UNCHANGED <<aborted, callerAborted, response, fetchError>>

\* fetchWithRetry(url, options) up to await fetch(url, { ...options, signal })
EnterFetch(sig) ==
    /\ fpc = "idle"
    /\ signalGiven' = sig
    /\ timer' = IF sig THEN "none" ELSE "pending"
    /\ attempts' = attempts + 1
    /\ fpc' = "awaiting"
    /\ UNCHANGED <<aborted, callerAborted, response, fetchError>>

\* a caller calls fetchWithRetry itself, with or without a signal of its own
CallFetchWithRetry(sig) ==
    /\ op = "none"
    /\ op' = "fetchWithRetry"
    /\ EnterFetch(sig)
    /\ UNCHANGED <<streamFlag, requests, hpc, outcome, genVars, reader, clientVars, otherVars, utilVars,
                   clientThrew>>

\* a client operation: request(), or generate's own call; options has no signal
CallClient(o) ==
    /\ op = "none"
    /\ op' = o
    /\ \E flag \in StreamFlags :
           /\ o # "generate" => flag = undefined
           /\ streamFlag' = flag
    /\ requests' = requests + 1
    /\ hpc' = "awaiting"
    /\ EnterFetch(FALSE)
    /\ UNCHANGED <<outcome, genVars, reader, clientVars, otherVars, utilVars, clientThrew>>

\* setTimeout(() => controller.abort(), timeout) fires
TimerFires ==
    /\ timer = "pending"
    /\ timer' = "fired"
    /\ aborted' = TRUE
    /\ UNCHANGED <<op, streamFlag, fpc, signalGiven, callerAborted, attempts, response, fetchError,
                   requests, hpc, outcome, genVars, reader, clientVars, otherVars, utilVars,
                   clientThrew>>

\* the caller aborts the signal it gave
CallerAborts ==
    /\ fpc = "awaiting"
    /\ signalGiven
    /\ ~callerAborted
    /\ callerAborted' = TRUE
    /\ UNCHANGED <<op, streamFlag, fpc, signalGiven, timer, aborted, attempts, response, fetchError,
                   requests, hpc, outcome, genVars, reader, clientVars, otherVars, utilVars,
                   clientThrew>>

\* fetch resolves: return response, through finally
FetchResolves(resp) ==
    /\ fpc = "awaiting"
    /\ ~aborted /\ ~callerAborted
    /\ response' = Some(resp)
    /\ timer' = timerAfterFinally(timer)
    /\ fpc' = "returned"
    /\ UNCHANGED <<op, streamFlag, signalGiven, aborted, callerAborted, attempts, fetchError,
                   requests, hpc, outcome, genVars, reader, clientVars, otherVars, utilVars,
                   clientThrew>>

\* fetch rejects with error: the catch block, through finally
FetchRejects(error) ==
    /\ fpc = "awaiting"
    /\ error \in AbortRejections => (aborted \/ callerAborted)
    /\ IF retryAfterFailure(attempts)
       THEN /\ attempts' = attempts + 1
            /\ UNCHANGED <<fpc, fetchError, timer>>
       ELSE /\ fetchError' = Some(FetchError(error, timer # "none", aborted))
            /\ timer' = timerAfterFinally(timer)
            /\ fpc' = "thrown"
            /\ UNCHANGED attempts
    /\ UNCHANGED <<op, streamFlag, signalGiven, aborted, callerAborted, response,
                   requests, hpc, outcome, genVars, reader, clientVars, otherVars, utilVars,
                   clientThrew>>

failureMessageNoBody(resp) ==
    <<"Ollama API request failed: ", resp.status, " ", resp.statusText>>

\* `Ollama API request failed: ${status} ${statusText} - ${errorBody}`
failureMessage(resp) ==
    <<"Ollama API request failed: ", resp.status, " ", resp.statusText, " - ", resp.bodyText>>

\* await response.json(): the decoded value, or undefined where JSON.parse
\* throws
responseJson(bodyText) == JSONparse(bodyText)

\* the SyntaxError of response.json() for a body that is not JSON
jsonSyntaxError(bodyText) ==
    [name |-> "SyntaxError",
     message |-> IF bodyText = <<>> THEN "Unexpected end of JSON input"
                 ELSE "Unexpected token 'b', \"boom\" is not valid JSON"]

\* the client operation after await fetchWithRetry(...): if (!response.ok)
\* throw; else the decoded body, which fails on a body that is not JSON, or
\* for a streaming generate the generator
ClientContinues ==
    /\ hpc = "awaiting"
    /\ fpc \in {"returned", "thrown"}
    /\ outcome' =
          IF fpc = "thrown"
          THEN Some([kind |-> "threw", value |-> ValueOf(fetchError)])
          ELSE IF ~ok(ValueOf(response))
          THEN Some([kind |-> "threw",
                     value |-> [name |-> "Error",
                                message |-> failureMessage(ValueOf(response))]])
          ELSE IF op = "generate" /\ resultIsSequence(streamFlag)
          THEN Some([kind |-> "stream", value |-> ValueOf(response).bodyText])
          ELSE IF IsDefined(responseJson(ValueOf(response).bodyText))
          THEN Some([kind |-> "json",
                     value |-> ValueOf(responseJson(ValueOf(response).bodyText))])
          ELSE Some([kind |-> "threw",
                     value |-> jsonSyntaxError(ValueOf(response).bodyText)])
    /\ IF fpc = "returned" /\ ok(ValueOf(response)) /\ op = "generate"
          /\ resultIsSequence(streamFlag)
       THEN \* return streamGenerator(requestId, params.model): nothing of it has
            \* run; it will read the body of this response, which may be null
            \* where the text is empty
            LET text == ValueOf(response).bodyText
            IN  /\ cpc' = "start"
                /\ body' = Utf8(text)
                /\ source' =
                       [lines |-> IF text = <<>> THEN <<>>
                                  ELSE <<[bytes |-> Utf8(text), object |-> JSONparse(text),
                                          kind |-> IF IsDefined(JSONparse(text))
                                                   THEN "object" ELSE "malformed"]>>,
                        trailing |-> FALSE]
                /\ \E isNull \in BOOLEAN :
                       /\ isNull => text = <<>>
                       /\ bodyNull' = isNull
            /\ UNCHANGED <<decoder, buffer, received, clientError, partial>>
       ELSE UNCHANGED clientVars
    /\ hpc' = "done"
    /\ UNCHANGED <<op, streamFlag, fpc, signalGiven, timer, aborted, callerAborted,
                   attempts, response, fetchError, requests, genVars, reader, otherVars,
                   utilVars, clientThrew>>

InitHttp ==
    /\ GeneratorIdle
    /\ reader = "none"
    /\ ClientIdle
    /\ UtilIdle
    /\ HttpIdle
    /\ OtherIdle

NextHttp ==
    \/ \E sig \in BOOLEAN : CallFetchWithRetry(sig)
    \/ \E o \in ClientOperations : CallClient(o)
    \/ TimerFires
    \/ CallerAborts
    \/ \E resp \in Responses_http : FetchResolves(resp)
    \/ \E error \in AbortRejections \cup NetworkRejections : FetchRejects(error)
    \/ ClientContinues

SpecHttp == InitHttp /\ [][NextHttp]_vars

(***************************************************************************)
(* Claims about the client operations and fetchWithRetry (SpecHttp).       *)
(***************************************************************************)
FetchCompleted == fpc \in {"returned", "thrown"}
OperationDone == hpc = "done" /\ IsDefined(outcome)

\* C16: whichever client operation it is (listModels, showModelDetails,
\* embeddings, generate with or without stream), a response whose status is
\* not 2xx makes it throw an error with the message
\* 'Ollama API request failed: <status> <statusText> - <bodyText>', and it
\* returns neither a decoded body nor a chunk sequence.
C16_Non2xxFailsWithMessage ==
    (OperationDone /\ fpc = "returned"
        /\ (ValueOf(response).status < 200 \/ ValueOf(response).status > 299)) =>
        LET resp == ValueOf(response)
            out == ValueOf(outcome)
        IN  /\ out.kind = "threw"
            /\ out.value.message[1] = "Ollama API request failed: "
            /\ out.value.message[2] = resp.status
            /\ out.value.message[4] = resp.statusText
            /\ Len(out.value.message) = 6
            /\ out.value.message[6] = resp.bodyText

\* a streaming generate has failed on a 500 response whose body is "boom"
C16_Witness ==
    /\ OperationDone
    /\ op = "generate"
    /\ streamFlag = Some(TRUE)
    /\ fpc = "returned"
    /\ ValueOf(response).status = 500
    /\ ValueOf(response).bodyText = <<"b", "o", "o", "m">>
    /\ ValueOf(outcome).kind = "threw"

\* C18: once fetchWithRetry has returned or thrown, the timer it started, if
\* any, has been cleared: it is never still pending.
C18_TimerClearedOnEveryExit ==
    FetchCompleted =>
        /\ timer # "pending"
        /\ signalGiven => timer = "none"
        /\ ~signalGiven => timer = "cleared"

\* the timer fired, fetch rejected, and the call has thrown with the timer
\* cleared
C18_Witness ==
    /\ fpc = "thrown"
    /\ aborted
    /\ timer = "cleared"

\* C19 as stated: every failure of fetchWithRetry is a FetchError with a
\* code; the code is ETIMEDOUT only when the function's own timer aborted
\* the request and always when that abort is what failed it; an abort by
\* the caller has another code.
C19_Original ==
    fpc = "thrown" =>
        LET e == ValueOf(fetchError)
        IN  /\ e.name = "FetchError"
            /\ IsDefined(e.code)
            /\ e.code = Some("ETIMEDOUT") => (aborted /\ ~signalGiven)
            /\ callerAborted => e.code # Some("ETIMEDOUT")

\* C20: fetchWithRetry calls fetch once and a client operation calls
\* fetchWithRetry once; when fetchWithRetry throws, the operation ends by
\* throwing that error.
C20_OneAttemptNoRetry ==
    /\ attempts <= 1
    /\ requests <= 1
    /\ FetchCompleted => attempts = 1
    /\ OperationDone => (requests = 1 /\ attempts = 1)
    /\ (OperationDone /\ fpc = "thrown") =>
           ValueOf(outcome) = [kind |-> "threw", value |-> ValueOf(fetchError)]

\* listModels has ended on a network failure after one attempt
C20_Witness ==
    /\ OperationDone
    /\ op = "listModels"
    /\ fpc = "thrown"
    /\ ValueOf(fetchError).message = "fetch failed"
    /\ attempts = 1
    /\ ValueOf(outcome).kind = "threw"

(***************************************************************************)
(* Claim about errors of the client reaching the translator's caller.      *)
(***************************************************************************)
\* C17: when ollamaClient.generate rejects, or the chunk sequence throws
\* while it is iterated, generateContent and generateContentStream fail with
\* that same error, and nothing is returned or yielded for it; when
\* ollamaClient.embeddings rejects, embedContent fails with that same error
\* and returns nothing.
C17_ClientErrorsPropagate ==
    /\ pc = "failed" =>
           /\ callError = clientThrew
           /\ callError \in ClientErrors
                               \cup {"Response body is null for streaming request."}
           /\ lastResponse = undefined
           /\ Len(yielded) = Len(chunks)
    /\ embeddingsThrew # "none" =>
           /\ upc = "ec_failed"
           /\ utilError = embeddingsThrew
           /\ embedded = undefined

\* a chunk was yielded, then the sequence threw, and the iteration failed
\* with the sequence's error; embedContent failed with the other error, which
\* ollamaClient.embeddings rejected with
C17_Witness ==
    /\ pc = "failed"
    /\ Len(yielded) = 1
    /\ reader = "errored"
    /\ callError = "fetch failed"
    /\ clientThrew = "fetch failed"
    /\ upc = "ec_failed"
    /\ embeddingsThrew = "Ollama API request failed: 500 Internal Server Error - boom"
    /\ utilError = embeddingsThrew

(***************************************************************************)
(* The generator factory: createContentGeneratorConfig and                 *)
(* createContentGenerator (SpecFactory).                                   *)
(***************************************************************************)
\* enum AuthType
AuthType ==
    [LOGIN_WITH_GOOGLE_PERSONAL |-> "oauth-personal", USE_GEMINI |-> "gemini-api-key",
     USE_VERTEX_AI |-> "vertex-ai", USE_OLLAMA |-> "ollama"]
\* authType: AuthType | undefined, and a value that is none of the enum's
AuthTypes ==
    {undefined, Some("cloud-shell")} \cup {Some(AuthType[k]) : k \in DOMAIN AuthType}
DEFAULT_GEMINI_MODEL == "DEFAULT_GEMINI_MODEL"

\* a || b over optional strings: undefined and '' are falsy
or(a, b) == IF FalsyString(a) THEN b ELSE a

\* what the factory reads of its Config argument and of process.env
Configs == [getOllamaModel : {undefined, Some(""), Some("session-model")},
            getModel : {undefined, Some(""), Some("current-model")}]
Envs == [GEMINI_API_KEY : {undefined, Some("gemini-key")},
         GOOGLE_API_KEY : {undefined, Some("google-key")},
         GOOGLE_CLOUD_PROJECT : {undefined, Some("project")},
         GOOGLE_CLOUD_LOCATION : {undefined, Some("location")},
         OLLAMA_MODEL : {undefined, Some(""), Some("env-model")}]

\* the model argument used for the local backend too
effectiveModelFromArgument(m, a, cfg, e) ==
    ValueOf(or(or(IF a = Some(AuthType.USE_OLLAMA)
                  THEN or(cfg.getOllamaModel, e.OLLAMA_MODEL) ELSE cfg.getModel, m),
               Some(DEFAULT_GEMINI_MODEL)))
\* let effectiveModel, lines 75-82
effectiveModel(m, a, cfg, e) ==
    LET ollamaModel == or(cfg.getOllamaModel, e.OLLAMA_MODEL)
    IN  IF a = Some(AuthType.USE_OLLAMA)
        THEN ValueOf(or(ollamaModel, Some("llama2")))
        ELSE ValueOf(or(or(cfg.getModel, m), Some(DEFAULT_GEMINI_MODEL)))

\* getEffectiveModel(apiKey, model): the remote resolution gives the model back
\* or names another one
getEffectiveModel(apiKey, m) == {m, "resolved-model"}

\* the branch of createContentGeneratorConfig that awaits getEffectiveModel
ResolvesRemotely(a, e) ==
    \/ a = Some(AuthType.USE_GEMINI) /\ ~FalsyString(e.GEMINI_API_KEY)
    \/ /\ a = Some(AuthType.USE_VERTEX_AI)
       /\ ~FalsyString(e.GOOGLE_API_KEY)
       /\ ~FalsyString(e.GOOGLE_CLOUD_PROJECT)
       /\ ~FalsyString(e.GOOGLE_CLOUD_LOCATION)

\* createContentGeneratorConfig(model, authType, config): the configs it can
\* return, one for each answer of getEffectiveModel
createContentGeneratorConfig(m, a, cfg, e) ==
    LET base == [model |-> effectiveModel(m, a, cfg, e), authType |-> a,
                 apiKey |-> undefined, vertexai |-> undefined]
    IN  IF a = Some(AuthType.LOGIN_WITH_GOOGLE_PERSONAL) THEN {base}
        ELSE IF a = Some(AuthType.USE_GEMINI) /\ ~FalsyString(e.GEMINI_API_KEY)
        THEN {[base EXCEPT !.apiKey = e.GEMINI_API_KEY, !.model = r] :
                 r \in getEffectiveModel(e.GEMINI_API_KEY, base.model)}
        ELSE IF ResolvesRemotely(a, e)
        THEN {[base EXCEPT !.apiKey = e.GOOGLE_API_KEY, !.vertexai = Some(TRUE),
                           !.model = r] :
                 r \in getEffectiveModel(e.GOOGLE_API_KEY, base.model)}
        ELSE {base}

\* loadEnvironment(): the file it reads gives values to variables of the
\* environment that have none; the environments it can leave
loadEnvironment(e) ==
    {l \in Envs : \A name \in DOMAIN e : IsDefined(e[name]) => l[name] = e[name]}

\* validateAuthMethod(authMethod) after its call of loadEnvironment() has left
\* the environment e: the error message, or null, written as the absent value;
\* a message is the sequence of its pieces, the bullet U+2022 being one piece
validateAuthMethod(authMethod, e) ==
    IF authMethod = Some(AuthType.LOGIN_WITH_GOOGLE_PERSONAL) THEN undefined
    ELSE IF authMethod = Some(AuthType.USE_GEMINI)
    THEN IF FalsyString(e.GEMINI_API_KEY)
         THEN Some(<<"GEMINI_API_KEY environment variable not found. Add that to your .env and try again, no reload needed!">>)
         ELSE undefined
    ELSE IF authMethod = Some(AuthType.USE_VERTEX_AI)
    THEN LET hasVertexProjectLocationConfig ==
                 ~FalsyString(e.GOOGLE_CLOUD_PROJECT) /\ ~FalsyString(e.GOOGLE_CLOUD_LOCATION)
             hasGoogleApiKey == ~FalsyString(e.GOOGLE_API_KEY)
         IN  IF ~hasVertexProjectLocationConfig /\ ~hasGoogleApiKey
             THEN Some(<<"Must specify GOOGLE_GENAI_USE_VERTEXAI=true and either:\n",
                         "U+2022",
                         " GOOGLE_CLOUD_PROJECT and GOOGLE_CLOUD_LOCATION environment variables.\n",
                         "U+2022",
                         " GOOGLE_API_KEY environment variable (if using express mode).\n",
                         "Update your .env and try again, no reload needed!">>)
             ELSE undefined
    ELSE IF authMethod = Some(AuthType.USE_OLLAMA) THEN undefined
    ELSE Some(<<"Invalid auth method selected.">>)

\* the CLI validates the selected auth method against the environment
ValidateAuthMethod ==
    /\ factoryPc # "unused"
    /\ validation = undefined
    /\ \E loaded \in loadEnvironment(env) :
           /\ env' = loaded
           /\ validation' = Some(validateAuthMethod(authType, loaded))
    /\ UNCHANGED <<model, authType, config, envRead, contentGeneratorConfig, generator,
                   constructed, factoryError, factoryPc, genVars, reader, clientVars,
                   utilVars, clientThrew, httpVars, pairVars, requestVars>>

\* createContentGeneratorConfig is called: it reads process.env and returns,
\* or goes as far as its await of getEffectiveModel
CreateContentGeneratorConfig ==
    /\ factoryPc = "ready"
    /\ envRead' = env
    /\ IF ResolvesRemotely(authType, env)
       THEN /\ factoryPc' = "awaiting_model"
            /\ UNCHANGED contentGeneratorConfig
       ELSE /\ \E c \in createContentGeneratorConfig(model, authType, config, env) :
                   contentGeneratorConfig' = Some(c)
            /\ factoryPc' = "configured"
    /\ UNCHANGED <<model, authType, config, env, generator, constructed, factoryError,
                   validation, genVars, reader, clientVars, utilVars, clientThrew,
                   httpVars, pairVars, requestVars>>

\* getEffectiveModel resolves: createContentGeneratorConfig returns the config
\* made of the values it read when it was called
EffectiveModelResolves ==
    /\ factoryPc = "awaiting_model"
    /\ \E c \in createContentGeneratorConfig(model, authType, config, envRead) :
           contentGeneratorConfig' = Some(c)
    /\ factoryPc' = "configured"
    /\ UNCHANGED <<model, authType, config, env, envRead, generator, constructed,
                   factoryError, validation, genVars, reader, clientVars, utilVars,
                   clientThrew, httpVars, pairVars, requestVars>>

\* what createContentGenerator returns
Generator(kind, modelName, ollamaClient, apiKey, vertexai) ==
    [kind |-> kind, modelName |-> modelName, ollamaClient |-> ollamaClient,
     apiKey |-> apiKey, vertexai |-> vertexai]

\* an authType outside the enum handed to the hosted SDK
createContentGeneratorNoFailure(c, cfg) ==
    IF c.authType = Some(AuthType.USE_OLLAMA)
    THEN [constructed |-> <<"OllamaClient", "OllamaContentGenerator">>,
          generator |-> Some(Generator("OllamaContentGenerator", Some(c.model),
                                       Some([config |-> cfg]), undefined, undefined)),
          error |-> undefined]
    ELSE IF c.authType = Some(AuthType.LOGIN_WITH_GOOGLE_PERSONAL)
    THEN [constructed |-> <<>>,
          generator |-> Some(Generator("createCodeAssistContentGenerator", undefined,
                                       undefined, undefined, undefined)),
          error |-> undefined]
    ELSE [constructed |-> <<"GoogleGenAI">>,
          generator |-> Some(Generator("GoogleGenAI.models", undefined, undefined,
                                       IF c.apiKey = Some("") THEN undefined ELSE c.apiKey,
                                       c.vertexai)),
          error |-> undefined]
\* createContentGenerator(contentGeneratorConfig, config): what it constructs,
\* what it returns, what it throws
createContentGenerator(c, cfg) ==
    IF c.authType = Some(AuthType.USE_OLLAMA)
    THEN [constructed |-> <<"OllamaClient", "OllamaContentGenerator">>,
          generator |-> Some(Generator("OllamaContentGenerator", Some(c.model),
                                       Some([config |-> cfg]), undefined, undefined)),
          error |-> undefined]
    ELSE IF c.authType = Some(AuthType.LOGIN_WITH_GOOGLE_PERSONAL)
    THEN [constructed |-> <<>>,
          generator |-> Some(Generator("createCodeAssistContentGenerator", undefined,
                                       undefined, undefined, undefined)),
          error |-> undefined]
    ELSE IF c.authType \in {Some(AuthType.USE_GEMINI), Some(AuthType.USE_VERTEX_AI)}
    THEN [constructed |-> <<"GoogleGenAI">>,
          generator |-> Some(Generator("GoogleGenAI.models", undefined, undefined,
                                       IF c.apiKey = Some("") THEN undefined ELSE c.apiKey,
                                       c.vertexai)),
          error |-> undefined]
    ELSE [constructed |-> <<>>,
          generator |-> undefined,
          error |-> Some(<<"Error creating contentGenerator: Unsupported authType: ",
                           IF c.authType = undefined THEN "undefined"
                           ELSE ValueOf(c.authType)>>)]

CreateContentGenerator ==
    /\ factoryPc = "configured"
    /\ LET r == createContentGenerator(ValueOf(contentGeneratorConfig), config)
       IN  /\ constructed' = r.constructed
           /\ generator' = r.generator
           /\ factoryError' = r.error
           /\ factoryPc' = IF r.error = undefined THEN "created" ELSE "failed"
    /\ UNCHANGED <<model, authType, config, env, envRead, contentGeneratorConfig,
                   validation,
                   genVars, reader, clientVars, utilVars, clientThrew, httpVars, pairVars,
                   requestVars>>

InitFactory ==
    /\ GeneratorIdle
    /\ reader = "none"
    /\ ClientIdle
    /\ UtilIdle
    /\ HttpIdle
    /\ PairIdle
    /\ RequestIdle
    /\ model \in {undefined, Some("argument-model")}
    /\ authType \in AuthTypes
    /\ config \in Configs
    /\ env \in Envs
    /\ envRead = undefined
    /\ contentGeneratorConfig = undefined
    /\ generator = undefined
    /\ constructed = <<>>
    /\ factoryError = undefined
    /\ factoryPc = "ready"
    /\ validation = undefined

NextFactory ==
    \/ ValidateAuthMethod
    \/ CreateContentGeneratorConfig
    \/ EffectiveModelResolves
    \/ CreateContentGenerator

SpecFactory == InitFactory /\ [][NextFactory]_vars

(***************************************************************************)
(* Claims about the factory (SpecFactory).                                 *)
(***************************************************************************)
FactoryDone == factoryPc \in {"created", "failed"}
Dispatched == ValueOf(contentGeneratorConfig).authType

\* C21: createContentGenerator looks at the authType of the config only and
\* returns one generator or fails. USE_OLLAMA: it constructs one OllamaClient
\* from the Config it was passed and one OllamaContentGenerator that holds
\* this client and the config's model. LOGIN_WITH_GOOGLE_PERSONAL: what
\* createCodeAssistContentGenerator gives. USE_GEMINI and USE_VERTEX_AI: the
\* models client of a new GoogleGenAI. Any other authType, undefined
\* included: no generator, and the error 'Error creating contentGenerator:
\* Unsupported authType: ...' with the authType in it.
C21_DispatchOnAuthType ==
    FactoryDone =>
        /\ (generator = undefined) # (factoryError = undefined)
        /\ Dispatched = Some(AuthType.USE_OLLAMA) =>
               /\ factoryPc = "created"
               /\ ValueOf(generator).kind = "OllamaContentGenerator"
               /\ ValueOf(generator).modelName
                      = Some(ValueOf(contentGeneratorConfig).model)
               /\ ValueOf(generator).ollamaClient = Some([config |-> config])
               /\ constructed = <<"OllamaClient", "OllamaContentGenerator">>
        /\ Dispatched = Some(AuthType.LOGIN_WITH_GOOGLE_PERSONAL) =>
               /\ factoryPc = "created"
               /\ ValueOf(generator).kind = "createCodeAssistContentGenerator"
        /\ Dispatched \in {Some(AuthType.USE_GEMINI), Some(AuthType.USE_VERTEX_AI)} =>
               /\ factoryPc = "created"
               /\ ValueOf(generator).kind = "GoogleGenAI.models"
        /\ Dispatched \notin {Some(AuthType[k]) : k \in DOMAIN AuthType} =>
               /\ factoryPc = "failed"
               /\ constructed = <<>>
               /\ factoryError
                      = Some(<<"Error creating contentGenerator: Unsupported authType: ",
                               IF Dispatched = undefined THEN "undefined"
                               ELSE ValueOf(Dispatched)>>)
C21_Witness ==
    /\ factoryPc = "failed"
    /\ authType = undefined
    /\ factoryError = Some(<<"Error creating contentGenerator: Unsupported authType: ",
                             "undefined">>)

Configured == factoryPc # "ready" /\ IsDefined(contentGeneratorConfig)
\* the model by precedence, from the arguments and the environment
ModelByPrecedence ==
    IF authType = Some(AuthType.USE_OLLAMA)
    THEN IF ~FalsyString(config.getOllamaModel) THEN ValueOf(config.getOllamaModel)
         ELSE IF ~FalsyString(envRead.OLLAMA_MODEL) THEN ValueOf(envRead.OLLAMA_MODEL)
         ELSE "llama2"
    ELSE IF ~FalsyString(config.getModel) THEN ValueOf(config.getModel)
         ELSE IF ~FalsyString(model) THEN ValueOf(model)
         ELSE DEFAULT_GEMINI_MODEL

\* C22 as stated: the model of the returned config is, for USE_OLLAMA,
\* config.getOllamaModel(), else OLLAMA_MODEL of the environment, else
\* 'llama2', the model argument never; for every other authType
\* config.getModel(), else the model argument, else the default hosted model.
C22_Original ==
    Configured => ValueOf(contentGeneratorConfig).model = ModelByPrecedence

\* C22: the model resolved by this precedence is the model of the returned
\* config, except where createContentGeneratorConfig awaits getEffectiveModel
\* (USE_GEMINI with GEMINI_API_KEY set; USE_VERTEX_AI with GOOGLE_API_KEY,
\* GOOGLE_CLOUD_PROJECT and GOOGLE_CLOUD_LOCATION set): there the returned
\* model is what getEffectiveModel answers for the model so resolved.
C22_ModelByPrecedenceThenRemote ==
    Configured =>
        IF ResolvesRemotely(authType, envRead)
        THEN ValueOf(contentGeneratorConfig).model
                 \in getEffectiveModel(ValueOf(contentGeneratorConfig).apiKey,
                                       ModelByPrecedence)
        ELSE ValueOf(contentGeneratorConfig).model = ModelByPrecedence
C22_Witness ==
    /\ Configured
    /\ authType = Some(AuthType.USE_OLLAMA)
    /\ FalsyString(config.getOllamaModel)
    /\ envRead.OLLAMA_MODEL = Some("env-model")
    /\ model = Some("argument-model")
    /\ ValueOf(contentGeneratorConfig).model = "env-model"

(***************************************************************************)
(* Two OllamaContentGenerator instances (SpecPair). The translator's       *)
(* variables stand for the instance whose code runs; peer keeps the other  *)
(* one, which is between two steps of its call or between two calls.       *)
(***************************************************************************)
\* what a completed call of SpecPair answers: an object or a single done chunk
PairChunks ==
    {c \in ContextChunks : c.response = "a" /\ c.done /\ c.done_reason = Some("stop")}

\* one field for all instances
thisCurrentContextStatic(own, shared) == shared
\* private currentContext: a field of the instance, undefined at construction;
\* own is what this instance stored, shared what the other one stored last
thisCurrentContext(own, shared) == own

\* new OllamaContentGenerator(modelName, ollamaClient), no call made yet
NewInstance ==
    [currentContext |-> undefined, pc |-> "idle", ollamaParams |-> undefined,
     chunks |-> <<>>, yielded |-> <<>>, finalOllamaResponse |-> undefined,
     lastResponse |-> undefined, calls |-> 0, heldBefore |-> undefined,
     heldAfterPrev |-> undefined, callError |-> "none", reader |-> "none"]

\* the event loop turns from a call on one instance to a call on the other
SwitchInstance ==
    /\ IsDefined(peer)
    /\ peer' = Some([currentContext |-> currentContext, pc |-> pc,
                     ollamaParams |-> ollamaParams, chunks |-> chunks,
                     yielded |-> yielded, finalOllamaResponse |-> finalOllamaResponse,
                     lastResponse |-> lastResponse, calls |-> calls,
                     heldBefore |-> heldBefore, heldAfterPrev |-> heldAfterPrev,
                     callError |-> callError, reader |-> reader])
    /\ currentContext' = thisCurrentContext(ValueOf(peer).currentContext, currentContext)
    /\ pc' = ValueOf(peer).pc
    /\ ollamaParams' = ValueOf(peer).ollamaParams
    /\ chunks' = ValueOf(peer).chunks
    /\ yielded' = ValueOf(peer).yielded
    /\ finalOllamaResponse' = ValueOf(peer).finalOllamaResponse
    /\ lastResponse' = ValueOf(peer).lastResponse
    /\ calls' = ValueOf(peer).calls
    /\ heldBefore' = ValueOf(peer).heldBefore
    /\ heldAfterPrev' = ValueOf(peer).heldAfterPrev
    /\ callError' = ValueOf(peer).callError
    /\ reader' = ValueOf(peer).reader
    /\ active' = IF active = "A" THEN "B" ELSE "A"
    /\ UNCHANGED <<clientVars, utilVars, clientThrew, httpVars, factoryVars, requestVars>>

InitPair ==
    /\ GeneratorIdle
    /\ reader = "none"
    /\ ClientIdle
    /\ UtilIdle
    /\ HttpIdle
    /\ FactoryIdle
    /\ RequestIdle
    /\ peer = Some(NewInstance)
    /\ active = "A"

NextPair ==
    \/ TranslatorStep(PairChunks)
    \/ SwitchInstance

SpecPair == InitPair /\ [][NextPair]_vars

(***************************************************************************)
(* Claims about two instances (SpecPair).                                  *)
(***************************************************************************)
\* C23: whatever the interleaving of the calls on two instances, an instance
\* that is between two calls holds the context it held when its own last
\* call ended (undefined before its first call), and the context an instance
\* sends with a request is the one it held when its own previous call ended:
\* no call on the other instance changes either.
C23_InstancesIndependent ==
    /\ Terminal => currentContext = heldAfterPrev
    /\ InFlight => ValueOf(ollamaParams).context = heldAfterPrev
    /\ IsDefined(peer) =>
           /\ ValueOf(peer).pc \in {"idle", "gc_done", "gs_completed", "gs_returned",
                                    "failed"}
                  => ValueOf(peer).currentContext = ValueOf(peer).heldAfterPrev
           /\ ValueOf(peer).pc \in {"gc_await", "gs_await"}
                  => ValueOf(ValueOf(peer).ollamaParams).context
                         = ValueOf(peer).heldAfterPrev
C23_Witness ==
    /\ active = "B"
    /\ InFlight
    /\ calls = 2
    /\ ValueOf(ollamaParams).context = Some(<<4, 5, 6>>)
    /\ ValueOf(peer).calls = 2
    /\ ValueOf(peer).pc = "gc_done"
    /\ ValueOf(peer).currentContext = Some(<<1, 2, 3>>)
    /\ ValueOf(peer).heldBefore = undefined

(***************************************************************************)
(* Further claims about embedContent (SpecUtil).                           *)
(***************************************************************************)
\* the turn embedContent takes the prompt from, when the request has one
PromptTurn ==
    IF request.kind = "content" THEN Some(request)
    ELSE IF request.kind = "array" /\ request.items # <<>>
              /\ Last(request.items).kind = "content"
    THEN Some(Last(request.items))
    ELSE undefined
\* the request is a string, a turn or an array of turns
StringTurnOrTurns ==
    \/ request.kind \in {"string", "content"}
    \/ request.kind = "array"
           /\ \A i \in 1..Len(request.items) : request.items[i].kind = "content"
\* the text the request gives for the prompt: none for an empty array
RequestedPromptText ==
    IF request.kind = "string" THEN request.text
    ELSE IF IsDefined(PromptTurn) THEN AllPartsText(ValueOf(PromptTurn).parts)
    ELSE <<>>

\* C24 as stated: whatever the shape of the request (string, turn, array of
\* turns, the empty array and turns without any text included), embedContent
\* fails with 'Prompt text is required for Ollama embedContent.' without
\* calling ollamaClient.embeddings when the request gives no text for the
\* prompt, and otherwise sends the string, or the text parts of the turn or
\* of the last turn.
C24_Original ==
    (EmbedContentCalled /\ StringTurnOrTurns) =>
        IF RequestedPromptText = <<>>
        THEN /\ upc = "ec_failed"
             /\ utilError = "Prompt text is required for Ollama embedContent."
             /\ embeddingsCalls = 0
        ELSE /\ embeddingsCalls = 1
             /\ promptText = (IF request.kind = "string" THEN request.text
                              ELSE joinTexts(ValueOf(PromptTurn).parts))

(***************************************************************************)
(* Further claims about tool calls (SpecTools).                            *)
(***************************************************************************)
\* C25: the response generateContentStream yields for a chunk that carries at
\* least one tool call has one function-call part per tool call, with its name
\* and its parameters as args, no text part and no top-level text, whatever
\* response text the chunk carries.
C25_ToolCallChunksYieldFunctionCalls ==
    \A i \in 1..Len(yielded) :
        HasToolCalls(chunks[i]) =>
            LET toolCalls == ValueOf(chunks[i].tool_calls)
            IN  /\ TextPartsOf(yielded[i].parts) = {}
                /\ Len(yielded[i].parts) = Len(toolCalls)
                /\ \A k \in 1..Len(toolCalls) :
                       /\ "functionCall" \in DOMAIN yielded[i].parts[k]
                       /\ yielded[i].parts[k].functionCall.name = toolCalls[k].name
                       /\ yielded[i].parts[k].functionCall.args = toolCalls[k].parameters
                /\ yielded[i].text = undefined
\* a chunk with response text and a tool call has been yielded as one
\* function-call part and no text
C25_Witness ==
    \E i \in 1..Len(yielded) :
        /\ HasToolCalls(chunks[i])
        /\ chunks[i].response # ""
        /\ Len(yielded[i].parts) = Len(ValueOf(chunks[i].tool_calls))
        /\ FunctionCallPartsOf(yielded[i].parts) = 1..Len(yielded[i].parts)
        /\ yielded[i].parts[1].functionCall.name = ValueOf(chunks[i].tool_calls)[1].name
        /\ yielded[i].text = undefined

(***************************************************************************)
(* The request mapping of generateContent and generateContentStream:       *)
(* paramsFromGeminiRequest over one request (SpecRequest).                 *)
(***************************************************************************)
MaxTools == 2

\* Part, Content and request.contents, with texts that tell the turns apart
RequestParts == {[text |-> Some(<<"a">>)], [text |-> Some(<<"b">>)], [text |-> undefined]}
RequestItems ==
    {[kind |-> "content", parts |-> ps] :
         ps \in UNION {[1..n -> RequestParts] : n \in 0..MaxParts}}
        \cup {[kind |-> "string", text |-> <<"a">>]}
\* a string, a turn, or an array: empty, or any item last after earlier items
\* that are a string or a turn of at most one part
RequestContents ==
    {[kind |-> "string", text |-> <<"a">>]}
        \cup {i \in RequestItems : i.kind = "content"}
        \cup {[kind |-> "array", items |-> <<>>]}
        \cup {[kind |-> "array", items |-> Append(earlier, lastContentItem)] :
                 earlier \in UNION {[1..n -> {i \in RequestItems :
                                                 i.kind = "content" => Len(i.parts) <= 1}] :
                                       n \in 0..(MaxTurns - 1)},
                 lastContentItem \in RequestItems}

\* request.config: absent, or the sampling settings, each absent or set
GenerationConfigs ==
    {undefined} \cup
    {Some(c) : c \in [temperature : {undefined, Some(0), Some(1)},
                      topP : {undefined, Some(1)},
                      topK : {undefined, Some(40)},
                      maxOutputTokens : {undefined, Some(100)},
                      stopSequences : {undefined, Some(<<>>), Some(<<"END">>)}]}

\* a declared tool: functionDeclarations absent, empty, one or two declarations
FunctionDeclaration ==
    {[name |-> "f", description |-> "d", parameters |-> "p"],
     [name |-> "g", description |-> "e", parameters |-> "q"]}
Tools ==
    {[functionDeclarations |-> undefined], [functionDeclarations |-> Some(<<>>)]}
        \cup {[functionDeclarations |-> Some(<<d>>)] : d \in FunctionDeclaration}
        \cup {[functionDeclarations |-> Some(ds)] :
                 ds \in {l \in [1..2 -> FunctionDeclaration] : l[1] # l[2]}}
OptToolLists ==
    {undefined} \cup {Some(ts) : ts \in UNION {[1..n -> Tools] : n \in 0..MaxTools}}

\* the prompt made of every turn
RECURSIVE promptOfAllTurns(_)
promptOfAllTurns(contents) ==
    IF contents.kind # "array" \/ contents.items = <<>> THEN <<>>
    ELSE LET lastContentItem == Last(contents.items)
             earlier == [kind |-> "array",
                         items |-> SubSeq(contents.items, 1, Len(contents.items) - 1)]
         IN  promptOfAllTurns(earlier)
                 \o (IF lastContentItem.kind = "content"
                     THEN joinTexts(lastContentItem.parts) ELSE <<>>)
\* paramsFromGeminiRequest: promptText
promptOf(contents) ==
    IF contents.kind = "array" /\ contents.items # <<>>
    THEN LET lastContentItem == Last(contents.items)
         IN  IF lastContentItem.kind = "content"
             THEN joinTexts(lastContentItem.parts)
             ELSE <<>>
    ELSE <<>>

\* request.config?.temperature and the like
setting(cfg, name) == IF cfg = undefined THEN undefined ELSE ValueOf(cfg)[name]

\* temperature forwarded only if it is truthy
optionsOfTruthy(cfg) ==
    LET options == [temperature |-> IF setting(cfg, "temperature") = Some(0)
                                    THEN undefined ELSE setting(cfg, "temperature"),
                    top_p |-> setting(cfg, "topP"),
                    top_k |-> setting(cfg, "topK"),
                    num_predict |-> setting(cfg, "maxOutputTokens"),
                    stop |-> setting(cfg, "stopSequences")]
    IN  IF \E k \in DOMAIN options : IsDefined(options[k]) THEN Some(options)
        ELSE undefined
\* paramsFromGeminiRequest: options. Each
\*   if (request.config?.X !== undefined) options.Y = request.config.X
\* leaves options.Y unassigned, undefined here, when X is not supplied;
\*   options: Object.keys(options).length > 0 ? options : undefined
optionsOf(cfg) ==
    LET options == [temperature |-> setting(cfg, "temperature"),
                    top_p |-> setting(cfg, "topP"),
                    top_k |-> setting(cfg, "topK"),
                    num_predict |-> setting(cfg, "maxOutputTokens"),
                    stop |-> setting(cfg, "stopSequences")]
    IN  IF \E k \in DOMAIN options : IsDefined(options[k]) THEN Some(options)
        ELSE undefined

\* the copies of paramsFromGeminiRequest that return no tools field
ollamaToolsOfNone(tools) == undefined

\* paramsFromGeminiRequest, the tools of the backend request:
\*   if (request.tools && Array.isArray(request.tools)) {
\*     ollamaTools = request.tools.map(tool =>
\*         tool.functionDeclarations && tool.functionDeclarations.length > 0
\*           ? <tool of tool.functionDeclarations[0]> : null)
\*       .filter(t => t !== null); }
\*   tools: ollamaTools
ollamaToolsOf(tools) ==
    IF ~IsDefined(tools) THEN undefined
    ELSE LET kept == SelectSeq(ValueOf(tools),
                               LAMBDA tool : /\ IsDefined(tool.functionDeclarations)
                                             /\ Len(ValueOf(tool.functionDeclarations)) > 0)
         IN  Some([i \in 1..Len(kept) |->
                      LET funcDecl == ValueOf(kept[i].functionDeclarations)[1]
                      IN  [type |-> "function",
                           function |-> [name |-> funcDecl.name,
                                         description |-> funcDecl.description,
                                         parameters |-> funcDecl.parameters]]])

\* the requests SpecRequest maps: every shape of contents without settings
\* and tools, and every choice of settings and tools with a two-turn array
GenerateContentParameters ==
    {[contents |-> c, config |-> undefined, tools |-> undefined] : c \in RequestContents}
        \cup {[contents |-> [kind |-> "array",
                             items |-> <<[kind |-> "content",
                                          parts |-> <<[text |-> Some(<<"a">>)]>>],
                                         [kind |-> "content",
                                          parts |-> <<[text |-> Some(<<"b">>)]>>]>>],
               config |-> g, tools |-> ts] :
                 g \in GenerationConfigs, ts \in OptToolLists}

\* const ollamaParams = this.paramsFromGeminiRequest(request);
\* ollamaParams.stream = stream
MapRequest(stream) ==
    /\ IsDefined(geminiRequest)
    /\ mappedParams = undefined
    /\ LET req == ValueOf(geminiRequest)
       IN  mappedParams' =
               Some([prompt |-> promptOf(req.contents),
                     context |-> paramsFromGeminiRequest(currentContext).context,
                     stream |-> stream,
                     options |-> optionsOf(req.config),
                     tools |-> ollamaToolsOf(req.tools)])
    /\ UNCHANGED <<geminiRequest, genVars, reader, clientVars, utilVars, clientThrew,
                   httpVars, factoryVars, pairVars>>

\* generateContent(request), up to its call of the client
ParamsForGenerateContent == MapRequest(FALSE)
\* generateContentStream(request), up to its call of the client
ParamsForGenerateContentStream == MapRequest(TRUE)

InitRequest ==
    /\ GeneratorIdle
    /\ reader = "none"
    /\ ClientIdle
    /\ UtilIdle
    /\ HttpIdle
    /\ FactoryIdle
    /\ PairIdle
    /\ geminiRequest \in {Some(r) : r \in GenerateContentParameters}
    /\ mappedParams = undefined

NextRequest ==
    \/ ParamsForGenerateContent
    \/ ParamsForGenerateContentStream

SpecRequest == InitRequest /\ [][NextRequest]_vars

(***************************************************************************)
(* Claims about the request mapping (SpecRequest).                         *)
(***************************************************************************)
Mapped == IsDefined(mappedParams)
RequestTurnsOnly ==
    /\ ValueOf(geminiRequest).contents.kind = "array"
    /\ \A i \in 1..Len(ValueOf(geminiRequest).contents.items) :
           ValueOf(geminiRequest).contents.items[i].kind = "content"
\* the texts of a turn's parts
TextsOfTurn(turn) ==
    {ValueOf(turn.parts[k].text) : k \in {j \in 1..Len(turn.parts) :
                                             IsDefined(turn.parts[j].text)}}

\* C26: when the request is an array of two or more turns, the prompt of the
\* backend request is the texts of the last turn's parts joined by blanks,
\* for generateContent and for generateContentStream: a text that only an
\* earlier turn holds is not in the prompt.
C26_PromptFromLastTurnOnly ==
    (Mapped /\ RequestTurnsOnly /\ Len(ValueOf(geminiRequest).contents.items) >= 2) =>
        LET turns == ValueOf(geminiRequest).contents.items
            prompt == ValueOf(mappedParams).prompt
        IN  /\ prompt = joinTexts(Last(turns).parts)
            /\ \A i \in 1..(Len(turns) - 1) :
                   \A t \in TextsOfTurn(turns[i]) \ TextsOfTurn(Last(turns)) :
                       \A k \in 1..Len(prompt) : <<prompt[k]>> # t
C26_Witness ==
    /\ Mapped
    /\ ValueOf(mappedParams).stream
    /\ ValueOf(geminiRequest).contents
           = [kind |-> "array",
              items |-> <<[kind |-> "content", parts |-> <<[text |-> Some(<<"a">>)]>>],
                          [kind |-> "content",
                           parts |-> <<[text |-> Some(<<"b">>)], [text |-> undefined]>>]>>]
    /\ ValueOf(mappedParams).prompt = <<"b", " ">>

\* the sampling settings and the backend options they go to
SettingToOption ==
    {<<"temperature", "temperature">>, <<"topP", "top_p">>, <<"topK", "top_k">>,
     <<"maxOutputTokens", "num_predict">>, <<"stopSequences", "stop">>}
\* the value the request supplies for a setting, undefined if it supplies none
Supplied(name) ==
    IF ValueOf(geminiRequest).config = undefined THEN undefined
    ELSE ValueOf(ValueOf(geminiRequest).config)[name]
\* the value the backend options carry under a name, undefined if none
Option(name) ==
    IF ValueOf(mappedParams).options = undefined THEN undefined
    ELSE ValueOf(ValueOf(mappedParams).options)[name]

\* C27: a sampling setting the request supplies is in the backend options
\* under its backend name with the same value (temperature -> temperature,
\* topP -> top_p, topK -> top_k, maxOutputTokens -> num_predict,
\* stopSequences -> stop), a zero or an empty list included; a setting the
\* request does not supply is not in the options.
C27_SamplingSettingsForwarded ==
    Mapped => \A p \in SettingToOption : Option(p[2]) = Supplied(p[1])
C27_Witness ==
    /\ Mapped
    /\ Supplied("temperature") = Some(0)
    /\ Supplied("topP") = undefined
    /\ Supplied("maxOutputTokens") = Some(100)
    /\ Option("temperature") = Some(0)
    /\ Option("num_predict") = Some(100)
    /\ Option("top_p") = undefined

RECURSIVE BackendToolsFor(_)
\* one backend tool for each declared tool that has a function declaration,
\* made of its first declaration, in the order of the declared tools
BackendToolsFor(tools) ==
    IF tools = <<>> THEN <<>>
    ELSE LET ds == Head(tools).functionDeclarations
         IN  (IF IsDefined(ds) /\ ValueOf(ds) # <<>>
              THEN <<[type |-> "function",
                      function |-> [name |-> ValueOf(ds)[1].name,
                                    description |-> ValueOf(ds)[1].description,
                                    parameters |-> ValueOf(ds)[1].parameters]]>>
              ELSE <<>>)
                 \o BackendToolsFor(Tail(tools))

\* C28: the backend request carries, for each declared tool with at least one
\* function declaration, one tool {type: 'function', function: {name,
\* description, parameters}} made of the first declaration; the tools without
\* a declaration are dropped and the order of the others is kept.
C28_ToolsFromFirstDeclarations ==
    (Mapped /\ IsDefined(ValueOf(geminiRequest).tools)) =>
        LET expected == BackendToolsFor(ValueOf(ValueOf(geminiRequest).tools))
        IN  IF expected = <<>>
            THEN ValueOf(mappedParams).tools \in {undefined, Some(<<>>)}
            ELSE ValueOf(mappedParams).tools = Some(expected)
\* a request declaring a tool without a declaration and then a tool with two
\* declarations has been mapped to the one backend tool of the first of them
C28_Witness ==
    /\ Mapped
    /\ IsDefined(ValueOf(geminiRequest).tools)
    /\ LET tools == ValueOf(ValueOf(geminiRequest).tools)
       IN  /\ Len(tools) = 2
           /\ tools[1].functionDeclarations \in {undefined, Some(<<>>)}
           /\ IsDefined(tools[2].functionDeclarations)
           /\ Len(ValueOf(tools[2].functionDeclarations)) = 2
           /\ IsDefined(ValueOf(mappedParams).tools)
           /\ Len(ValueOf(ValueOf(mappedParams).tools)) = 1
           /\ ValueOf(ValueOf(mappedParams).tools)[1].function.name
                  = ValueOf(tools[2].functionDeclarations)[1].name

(***************************************************************************)
(* The translator with all its methods, the client answering with and      *)
(* without a context and failing (SpecFrame).                              *)
(***************************************************************************)
FrameChunks == {c \in ContextChunks : c.response = "a"}
NextFrame ==
    \/ TranslatorStep(FrameChunks)
    \/ NextUtil
SpecFrame == InitErrors /\ [][NextFrame]_vars

\* C29: the held context changes only in the step in which generateContent
\* receives a response that carries a context, and in the step in which the
\* loop of geminiStream is left after the sequence was consumed and the last
\* chunk carried a context; it is then that context. A call that fails, a
\* sequence that throws, a response or a last chunk without context, and the
\* steps of countTokens and embedContent leave it as it was.
C29_HeldContextFrame ==
    [][/\ currentContext' # currentContext =>
              \/ /\ pc = "gc_await" /\ pc' = "gc_done"
                 /\ IsDefined(Last(chunks').context)
                 /\ currentContext' = Last(chunks').context
              \/ /\ pc \in {"gs_ready", "gs_suspended"} /\ pc' = "gs_completed"
                 /\ IsDefined(finalOllamaResponse)
                 /\ IsDefined(ValueOf(finalOllamaResponse).context)
                 /\ currentContext' = ValueOf(finalOllamaResponse).context
       /\ pc' = "failed" => currentContext' = currentContext
       /\ (pc' = "gc_done" /\ pc = "gc_await" /\ ~IsDefined(Last(chunks').context))
              => currentContext' = currentContext
       /\ upc' # upc => currentContext' = currentContext]_vars
\* a context is held, the second call got a chunk with another context and
\* its sequence then threw, and embedContent has been called
C29_Witness ==
    /\ pc = "failed"
    /\ calls = 2
    /\ Len(chunks) = 1
    /\ chunks[1].context = Some(<<4, 5, 6>>)
    /\ currentContext = Some(<<1, 2, 3>>)
    /\ upc \in {"ec_await", "ec_done", "ec_failed"}

(***************************************************************************)
(* A further claim about the end of a streamed call (Spec).                *)
(***************************************************************************)
\* the chunks of the current call that are done chunks
DoneChunks == {i \in 1..Len(chunks) : chunks[i].done}

\* C30: in a streaming call the first done chunk is the last chunk taken from
\* the backend: the response yielded for it is the last one yielded, no other
\* yielded response was made of a done chunk, and once the loop is left the
\* held context is the one this chunk carries, or the earlier one if it
\* carries none.
C30_StopsAtFirstDoneChunk ==
    (Streaming \/ (pc = "failed" /\ ValueOf(ollamaParams).stream)) =>
        /\ Cardinality(DoneChunks) <= 1
        /\ \A i \in DoneChunks :
               /\ i = Len(chunks)
               /\ Len(yielded) = i
               /\ yielded[i].text = Some(chunks[i].response)
               /\ finalOllamaResponse = Some(chunks[i])
               /\ pc = "gs_completed" =>
                      currentContext = (IF IsDefined(chunks[i].context)
                                        THEN chunks[i].context ELSE heldBefore)
\* the second chunk was the done chunk, the first carried another context
C30_Witness ==
    /\ pc = "gs_completed"
    /\ DoneChunks = {2}
    /\ chunks[1].context = Some(<<1, 2, 3>>)
    /\ chunks[2].context = Some(<<4, 5, 6>>)
    /\ Len(yielded) = 2
    /\ currentContext = Some(<<4, 5, 6>>)
    /\ reader = "open"

(***************************************************************************)
(* Two overlapping calls on one OllamaContentGenerator (SpecOverlap). The  *)
(* translator's variables stand for the call whose code runs; peer keeps   *)
(* the locals of the other call, suspended at an await or a yield. The     *)
(* field currentContext belongs to the instance: both calls read and write *)
(* the same one.                                                           *)
(***************************************************************************)
\* each call working on a copy of the context taken when it started
SwitchCallOwnCopy == SwitchInstance

\* the event loop turns from one call on the instance to the other
SwitchCall ==
    /\ IsDefined(peer)
    /\ peer' = Some([currentContext |-> undefined, pc |-> pc,
                     ollamaParams |-> ollamaParams, chunks |-> chunks,
                     yielded |-> yielded, finalOllamaResponse |-> finalOllamaResponse,
                     lastResponse |-> lastResponse, calls |-> calls,
                     heldBefore |-> heldBefore, heldAfterPrev |-> heldAfterPrev,
                     callError |-> callError, reader |-> reader])
    /\ pc' = ValueOf(peer).pc
    /\ ollamaParams' = ValueOf(peer).ollamaParams
    /\ chunks' = ValueOf(peer).chunks
    /\ yielded' = ValueOf(peer).yielded
    /\ finalOllamaResponse' = ValueOf(peer).finalOllamaResponse
    /\ lastResponse' = ValueOf(peer).lastResponse
    /\ calls' = ValueOf(peer).calls
    /\ heldBefore' = ValueOf(peer).heldBefore
    /\ heldAfterPrev' = ValueOf(peer).heldAfterPrev
    /\ callError' = ValueOf(peer).callError
    /\ reader' = ValueOf(peer).reader
    /\ active' = IF active = "A" THEN "B" ELSE "A"
    /\ UNCHANGED <<currentContext, clientVars, utilVars, clientThrew, httpVars,
                   factoryVars, requestVars>>

NextOverlap ==
    \/ TranslatorStep(PairChunks)
    \/ SwitchCall

SpecOverlap == InitPair /\ [][NextOverlap]_vars

(***************************************************************************)
(* Claims about overlapping calls (SpecOverlap).                           *)
(***************************************************************************)
Completed == pc \in {"gc_done", "gs_completed"}
\* the context the response, or the last chunk, of the running call carries
Delivered ==
    IF pc = "gc_done" THEN Last(chunks).context
    ELSE IF IsDefined(finalOllamaResponse) THEN ValueOf(finalOllamaResponse).context
    ELSE undefined

\* C31: with two calls overlapping on one instance in any order, the held
\* context is always undefined or the context of one backend response; the
\* step in which a call completes stores the context its response (its last
\* chunk) carries, whatever the other call has done, and no other step
\* changes the held context: once both calls have completed it is the
\* context delivered by the call that completed last.
C31_LastCompletedCallWins ==
    /\ [](currentContext \in OptContexts)
    /\ [][IF active' = active /\ ~Completed /\ Completed'
          THEN IF IsDefined(Delivered') THEN currentContext' = Delivered'
               ELSE currentContext' = currentContext
          ELSE currentContext' = currentContext]_vars
\* the other call completed first with one context, this one, started before
\* that, completed last with another
C31_Witness ==
    /\ Completed
    /\ calls = 1
    /\ heldBefore = undefined
    /\ Delivered = Some(<<4, 5, 6>>)
    /\ currentContext = Some(<<4, 5, 6>>)
    /\ ValueOf(peer).calls = 1
    /\ ValueOf(peer).pc = "gs_completed"
    /\ ValueOf(peer).heldBefore = undefined
    /\ ValueOf(peer).finalOllamaResponse # undefined
    /\ ValueOf(ValueOf(peer).finalOllamaResponse).context = Some(<<1, 2, 3>>)

(***************************************************************************)
(* A further claim about fetchWithRetry (SpecHttp).                        *)
(***************************************************************************)
\* C32: when the caller gives a signal, fetchWithRetry starts no timer and
\* its own controller is never aborted, so the call does not fail with code
\* 'ETIMEDOUT' however late fetch settles; a failure with that code is one
\* of a call without a signal whose timer fired.
C32_NoTimeoutWithCallerSignal ==
    /\ signalGiven =>
           /\ timer = "none"
           /\ ~aborted
           /\ fpc = "thrown" => ValueOf(fetchError).code # Some("ETIMEDOUT")
    /\ (fpc = "thrown" /\ ValueOf(fetchError).code = Some("ETIMEDOUT")) =>
           (~signalGiven /\ aborted /\ timer = "cleared")
\* the caller gave a signal and aborted it; the call failed with ABORT_ERR
C32_Witness ==
    /\ signalGiven
    /\ callerAborted
    /\ fpc = "thrown"
    /\ ValueOf(fetchError).code = Some("ABORT_ERR")
    /\ timer = "none"


(***************************************************************************)
(* OllamaClient.generate and the sequence it returns (SpecGenerate): the   *)
(* client operations, and the consumer's steps through streamGenerator.    *)
(***************************************************************************)
NextGenerate ==
    \/ NextHttp
    \/ NextClient

SpecGenerate == InitHttp /\ [][NextGenerate]_vars

\* generate has returned on a 2xx response
GenerateReturned ==
    /\ OperationDone
    /\ op = "generate"
    /\ fpc = "returned"
    /\ ok(ValueOf(response))

\* C33: generate chooses the shape of its result from params.stream alone:
\* on a 2xx response it decodes the body as one response object exactly
\* when the flag is false (and returns it, unless the decoding throws), and
\* returns the chunk sequence for true and for an omitted flag; a sequence
\* exists only as such a result, and until the consumer asks for its first
\* chunk no reader has been taken and no byte of the body has been read.
C33_ShapeFromStreamFlag ==
    /\ GenerateReturned =>
           /\ ValueOf(outcome).kind = "stream" <=> streamFlag \in {undefined, Some(TRUE)}
           /\ ValueOf(outcome).kind \in {"json", "threw"} <=> streamFlag = Some(FALSE)
           /\ ValueOf(outcome).kind = "json" <=>
                  /\ streamFlag = Some(FALSE)
                  /\ IsDefined(responseJson(ValueOf(response).bodyText))
           /\ ValueOf(outcome).kind = "json" =>
                  ValueOf(outcome).value = ValueOf(responseJson(ValueOf(response).bodyText))
           /\ ValueOf(outcome).kind = "threw" =>
                  ValueOf(outcome).value.name = "SyntaxError"
           /\ ValueOf(outcome).kind = "stream" <=> cpc # "unused"
    /\ cpc # "unused" => (GenerateReturned /\ ValueOf(outcome).kind = "stream")
    /\ cpc = "start" =>
           /\ reader = "none"
           /\ body = bodyOf(source)
           /\ decoder = <<>> /\ buffer = <<>> /\ received = <<>>
    /\ reader # "none" => cpc \notin {"unused", "start"}

\* generate was called without a stream flag and has returned the sequence,
\* of which nothing has run: the body, one line or more, is unread
C33_Witness ==
    /\ GenerateReturned
    /\ streamFlag = undefined
    /\ ValueOf(outcome).kind = "stream"
    /\ cpc = "start"
    /\ reader = "none"
    /\ body # <<>>
    /\ body = bodyOf(source)


(***************************************************************************)
(* A claim about validateAuthMethod and the factory (SpecFactory).         *)
(***************************************************************************)
\* validateAuthMethod has accepted USE_VERTEX_AI for this environment
VertexAccepted ==
    /\ authType = Some(AuthType.USE_VERTEX_AI)
    /\ validation = Some(undefined)

\* createContentGeneratorConfig has returned a config, and it read the
\* environment that validateAuthMethod read
ConfiguredFromValidated ==
    /\ Configured
    /\ envRead = env

\* C34 as stated: whenever validateAuthMethod accepts USE_VERTEX_AI for the
\* values of GOOGLE_API_KEY, GOOGLE_CLOUD_PROJECT and GOOGLE_CLOUD_LOCATION,
\* the config createContentGeneratorConfig returns for them has vertexai
\* true and an apiKey.
C34_Original ==
    (VertexAccepted /\ ConfiguredFromValidated) =>
        /\ ValueOf(contentGeneratorConfig).vertexai = Some(TRUE)
        /\ ~FalsyString(ValueOf(contentGeneratorConfig).apiKey)

====
